---- MODULE Spec2Model ----
(***************************************************************************)
(* Model of the wikicast generation pipeline:                              *)
(*   - the script validator   (backend/src/services/tts.ts, second half:   *)
(*     validateScript / calculateDuration / generateScript)                *)
(*   - the synthesis retry wrapper (generateAudioSegments and              *)
(*     generateAudioSegmentsWithRetry)                                     *)
(*   - the audio stitcher (backend/src/services/audioStitcher.ts)          *)
(*   - the orchestrator generatePodcast (backend/src/prompts/podcast.ts)   *)
(*   - the two POST handlers (backend/src/routes/podcast.ts) and the       *)
(*     frontend hook usePodcastGeneration                                  *)
(* The specifications share the variables:                                 *)
(*   SpecValidator  generateScript applied to a family of model batches    *)
(*   SpecRetry      generateAudioSegmentsWithRetry called directly         *)
(*   SpecStitch     two calls of stitchAudioSegments side by side          *)
(*   SpecHook       the frontend hook and the streams it opens             *)
(*   Spec           one request and its run of generatePodcast             *)
(***************************************************************************)
EXTENDS Integers, Sequences, FiniteSets, TLC

(***************************************************************************)
(* Bounds of the model.                                                    *)
(***************************************************************************)
\* longest batch of lines the language model returns
MaxLines == 11
\* largest maxRetries argument tried on the retry wrapper
MaxRetriesArg == 3
\* longest batch handed to the retry wrapper when it is called directly
MaxTtsLines == 3
\* segments of the first script id in a stitch call
MaxStitchSegs == 3
\* calls of generate() on the hook, and events read from one stream
MaxStreams == 2
MaxEvents == 2

(***************************************************************************)
(* Program constants.                                                      *)
(***************************************************************************)
\* validateScript: lines.length < 10
MIN_LINES == 10
\* validateScript: consecutiveCount > 5
MAX_CONSECUTIVE == 5
\* generateAudioSegmentsWithRetry: maxRetries: number = 2
DEFAULT_MAX_RETRIES == 2
\* generateAudioSegmentsWithRetry: Math.pow(2, attempt) * 1000
BACKOFF_BASE_MS == 1000
\* calculateDuration: (totalWords / 150) * 60
WORDS_PER_MINUTE == 150
\* generateScript: estimatedDuration < 120 || estimatedDuration > 180
MIN_DURATION == 120
MAX_DURATION == 180

requiredSections == <<"greeting", "explanation", "clarification", "qna", "signoff">>
sectionOrder == <<"greeting", "explanation", "clarification", "qna", "signoff">>
SPEAKERS == {"Nishi", "Shyam"}

\* a speaker the other one of the two hosts
OtherSpeaker(s) == IF s = "Nishi" THEN "Shyam" ELSE "Nishi"

(***************************************************************************)
(* Errors.  An Error object is modelled by its message, and a message by   *)
(* the template that built it plus the values interpolated into it.        *)
(***************************************************************************)
Msg(kind, tag, num) == [kind |-> kind, tag |-> tag, num |-> num, cause |-> <<>>]
\* a message that ends with the message of another error
Wrap(kind, num, inner) == [kind |-> kind, tag |-> "", num |-> num, cause |-> <<inner>>]
NoError == Msg("none", "", 0)

SeqRange(s) == {s[i] : i \in 1..Len(s)}

(***************************************************************************)
(* Script validator: validateScript (services/tts.ts 265-322).             *)
(* A line is [index, speaker, text, section].  A text is a sequence of     *)
(* tokens: "w" is a word, "_" a run of white space.                        *)
(***************************************************************************)
\* Array.prototype.indexOf: 0-based position of the first match, -1 if none
IndexOf(seq, x) ==
  IF \E i \in 1..Len(seq) : seq[i] = x
  THEN (CHOOSE i \in 1..Len(seq) : seq[i] = x /\ \A j \in 1..(i-1) : seq[j] # x) - 1
  ELSE -1

\* a length check that asks for more than 10 lines
CheckMinLines_Inclusive(lines) ==
  IF Len(lines) <= MIN_LINES THEN Msg("ScriptTooShort", "", MIN_LINES) ELSE NoError

\* if (lines.length < 10) throw 'Script too short: must have at least 10 lines'
CheckMinLines(lines) ==
  IF Len(lines) < MIN_LINES THEN Msg("ScriptTooShort", "", MIN_LINES) ELSE NoError

\* for (const section of requiredSections) if (!sections.has(section)) throw
RECURSIVE CheckSectionsFrom(_, _)
CheckSectionsFrom(lines, k) ==
  IF k > Len(requiredSections) THEN NoError
  ELSE IF requiredSections[k] \notin {lines[i].section : i \in 1..Len(lines)}
       THEN Msg("MissingSection", requiredSections[k], 0)
       ELSE CheckSectionsFrom(lines, k + 1)

CheckSections(lines) == CheckSectionsFrom(lines, 1)

\* a check that lets every speaker through
IsAllowedSpeaker_Lenient(speaker) == TRUE

\* the negation of: speaker !== 'Nishi' && speaker !== 'Shyam'
IsAllowedSpeaker(speaker) == speaker = "Nishi" \/ speaker = "Shyam"

\* for (const speaker of speakers): a Set iterates in insertion order, that is
\* in the order of the first line of each speaker
RECURSIVE CheckSpeakersFrom(_, _)
CheckSpeakersFrom(lines, i) ==
  IF i > Len(lines) THEN NoError
  ELSE IF ~IsAllowedSpeaker(lines[i].speaker)
       THEN Msg("InvalidSpeaker", lines[i].speaker, 0)
       ELSE CheckSpeakersFrom(lines, i + 1)

CheckSpeakers(lines) == CheckSpeakersFrom(lines, 1)

\* a comparison that tolerates one step back
OrderViolated_Slack(currentSectionIndex, lastSectionIndex) ==
  currentSectionIndex < lastSectionIndex - 1

\* if (currentSectionIndex < lastSectionIndex)
OrderViolated(currentSectionIndex, lastSectionIndex) ==
  currentSectionIndex < lastSectionIndex

\* a message that names the line before the one that steps back
OrderErrorLine_Previous(lines, i) == lines[i - 1].index

\* `Sections out of order at line ${line.index}`
OrderErrorLine(lines, i) == lines[i].index

\* let lastSectionIndex = -1; for (const line of lines) { ... }
RECURSIVE CheckOrderFrom(_, _, _)
CheckOrderFrom(lines, i, lastSectionIndex) ==
  IF i > Len(lines) THEN NoError
  ELSE LET currentSectionIndex == IndexOf(sectionOrder, lines[i].section)
       IN IF OrderViolated(currentSectionIndex, lastSectionIndex)
          THEN Msg("SectionsOutOfOrder", "", OrderErrorLine(lines, i))
          ELSE CheckOrderFrom(lines, i + 1, currentSectionIndex)

CheckOrder(lines) == CheckOrderFrom(lines, 1, -1)

\* a limit that is one too high
RunExceeds_OneMore(consecutiveCount) == consecutiveCount > MAX_CONSECUTIVE + 1

\* if (consecutiveCount > 5)
RunExceeds(consecutiveCount) == consecutiveCount > MAX_CONSECUTIVE

\* let consecutiveCount = 1; let lastSpeaker = lines[0]?.speaker;
\* for (let i = 1; i < lines.length; i++) { ... }   (p is i + 1, 1-based)
RECURSIVE CheckRunsFrom(_, _, _, _)
CheckRunsFrom(lines, p, consecutiveCount, lastSpeaker) ==
  IF p > Len(lines) THEN NoError
  ELSE IF lines[p].speaker = lastSpeaker
       THEN IF RunExceeds(consecutiveCount + 1)
            THEN Msg("TooManyConsecutive", lastSpeaker, p)
            ELSE CheckRunsFrom(lines, p + 1, consecutiveCount + 1, lastSpeaker)
       ELSE CheckRunsFrom(lines, p + 1, 1, lines[p].speaker)

CheckRuns(lines) ==
  IF Len(lines) = 0 THEN NoError ELSE CheckRunsFrom(lines, 2, 1, lines[1].speaker)

\* the speaker check moved behind the order check
validateScript_SpeakersLate(lines) ==
  IF CheckMinLines(lines) # NoError THEN CheckMinLines(lines)
  ELSE IF CheckSections(lines) # NoError THEN CheckSections(lines)
  ELSE IF CheckOrder(lines) # NoError THEN CheckOrder(lines)
  ELSE IF CheckSpeakers(lines) # NoError THEN CheckSpeakers(lines)
  ELSE CheckRuns(lines)

\* the five checks in their order; the first that throws ends the function
validateScript(lines) ==
  IF CheckMinLines(lines) # NoError THEN CheckMinLines(lines)
  ELSE IF CheckSections(lines) # NoError THEN CheckSections(lines)
  ELSE IF CheckSpeakers(lines) # NoError THEN CheckSpeakers(lines)
  ELSE IF CheckOrder(lines) # NoError THEN CheckOrder(lines)
  ELSE CheckRuns(lines)

(***************************************************************************)
(* generateScript (services/tts.ts 443-490) and its helpers.               *)
(***************************************************************************)
\* String.prototype.trim on a token text: drop white space at both ends
RECURSIVE TrimLeft(_)
TrimLeft(t) == IF Len(t) > 0 /\ t[1] = "_" THEN TrimLeft(Tail(t)) ELSE t
RECURSIVE TrimRight(_)
TrimRight(t) ==
  IF Len(t) > 0 /\ t[Len(t)] = "_" THEN TrimRight(SubSeq(t, 1, Len(t) - 1)) ELSE t
Trim(t) == TrimRight(TrimLeft(t))

\* text.split(/\s+/).length: one piece more than there are separators, a
\* separator being a longest run of white space
SplitLength(t) ==
  Cardinality({i \in 1..Len(t) : t[i] = "_" /\ (i = 1 \/ t[i - 1] # "_")}) + 1

\* lines.reduce((sum, line) => sum + line.text.split(/\s+/).length, 0)
RECURSIVE SumWords(_, _)
SumWords(lines, i) ==
  IF i > Len(lines) THEN 0 ELSE SplitLength(lines[i].text) + SumWords(lines, i + 1)

\* a duration rounded down
calculateDuration_Floor(lines) ==
  LET totalWords == SumWords(lines, 1)
  IN [totalWords |-> totalWords,
      estimatedDuration |-> (totalWords * 60) \div WORDS_PER_MINUTE]

\* Math.round((totalWords / 150) * 60): round half up of totalWords * 60 / 150
calculateDuration(lines) ==
  LET totalWords == SumWords(lines, 1)
  IN [totalWords |-> totalWords,
      estimatedDuration |-> (2 * totalWords * 60 + WORDS_PER_MINUTE) \div (2 * WORDS_PER_MINUTE)]

\* sections[line.section].push(line.index): the literal has the five keys only,
\* so a line with any other section makes the push throw a TypeError
organizeSectionsThrows(lines) ==
  \E i \in 1..Len(lines) : lines[i].section \notin SeqRange(sectionOrder)

RECURSIVE IndicesOf(_, _, _)
IndicesOf(lines, s, i) ==
  IF i > Len(lines) THEN <<>>
  ELSE IF lines[i].section = s
       THEN <<lines[i].index>> \o IndicesOf(lines, s, i + 1)
       ELSE IndicesOf(lines, s, i + 1)

organizeSections(lines) == [s \in SeqRange(sectionOrder) |-> IndicesOf(lines, s, 1)]

\* rawScript.lines.map(line => ({index, speaker, text: line.text.trim(), section}))
MapLines(rawLines) ==
  [i \in 1..Len(rawLines) |->
     [index |-> rawLines[i].index, speaker |-> rawLines[i].speaker,
      text |-> Trim(rawLines[i].text), section |-> rawLines[i].section]]

NoSections == [s \in SeqRange(sectionOrder) |-> <<>>]
NoScript ==
  [id |-> "", lines |-> <<>>, sections |-> NoSections,
   totalWords |-> 0, estimatedDuration |-> 0]

\* generateScriptId: the sanitized title followed by the time stamp
generateScriptId(title) == title

\* if (estimatedDuration < 120 || estimatedDuration > 180)
DurationOutOfRange(d) == d < MIN_DURATION \/ d > MAX_DURATION

\* a duration check that throws
DurationVerdict_Fatal(d) ==
  IF DurationOutOfRange(d) THEN Msg("DurationOutOfRange", "", d) ELSE NoError

\* the body of that if is a console.warn: nothing is thrown
DurationVerdict(d) == NoError

\* the result of generateScript on the model's answer: a Script or an error,
\* and whether the duration warning was logged
generateScript(title, rawLines) ==
  LET lines == MapLines(rawLines)
      verdict == validateScript(lines)
      d == calculateDuration(lines)
  IN IF verdict # NoError
     THEN [ok |-> FALSE, error |-> verdict, script |-> NoScript, warned |-> FALSE]
     ELSE IF DurationVerdict(d.estimatedDuration) # NoError
     THEN [ok |-> FALSE, error |-> DurationVerdict(d.estimatedDuration),
           script |-> NoScript, warned |-> FALSE]
     ELSE IF organizeSectionsThrows(lines)
     THEN [ok |-> FALSE, error |-> Msg("TypeError", "push", 0), script |-> NoScript,
           warned |-> DurationOutOfRange(d.estimatedDuration)]
     ELSE [ok |-> TRUE, error |-> NoError,
           warned |-> DurationOutOfRange(d.estimatedDuration),
           script |-> [id |-> generateScriptId(title), lines |-> lines,
                       sections |-> organizeSections(lines),
                       totalWords |-> d.totalWords,
                       estimatedDuration |-> d.estimatedDuration]]

NotCalled ==
  [ok |-> FALSE, error |-> Msg("notcalled", "", 0), script |-> NoScript, warned |-> FALSE]

(***************************************************************************)
(* The batches the language model is made to answer with.  A batch is      *)
(* built from a section layout and a speaker pattern, each with defects.   *)
(***************************************************************************)
Texts == << <<"w", "_", "w">>, <<"w">>, <<"_", "w", "_">>, <<>>, <<"w", "_", "w", "_", "w">> >>
TextAt(i) == Texts[((i - 1) % Len(Texts)) + 1]

InvalidSpeakers == {"Alex", "Bob"}
UnknownSection == "intro"
AllSections == SeqRange(sectionOrder) \cup {UnknownSection}

\* canonical blocks of the tags in `present`, one line each, the filler tag
\* taking the rest; the first u lines carry the unknown tag
SectionLayout(n, present, u) ==
  LET tags == SelectSeq(sectionOrder, LAMBDA t : t \in present)
      m == Len(tags)
      filler == IF "explanation" \in present THEN "explanation" ELSE tags[1]
      fpos == IndexOf(tags, filler) + 1
      flen == (n - u) - m + 1
  IN [i \in 1..n |->
        IF i <= u THEN UnknownSection
        ELSE LET j == i - u
             IN IF j < fpos THEN tags[j]
                ELSE IF j < fpos + flen THEN filler
                ELSE tags[j - flen + 1]]

\* hosts alternate, but for a run of r lines by x that starts at line p
SpeakerPattern(n, x, p, r) ==
  [i \in 1..n |->
     IF i < p THEN (IF (p - i) % 2 = 0 THEN x ELSE OtherSpeaker(x))
     ELSE IF i < p + r THEN x
     ELSE (IF (i - (p + r)) % 2 = 0 THEN OtherSpeaker(x) ELSE x)]

\* a sequence with the entries at the positions of f replaced
Patch(seq, f) == [i \in 1..Len(seq) |-> IF i \in DOMAIN f THEN f[i] ELSE seq[i]]

Patches(n, values, most) ==
  UNION {[d -> values] : d \in {d \in SUBSET (1..n) : Cardinality(d) <= most}}

MkLines(secs, spks, base) ==
  [i \in 1..Len(secs) |->
     [index |-> i - 1 + base, speaker |-> spks[i], text |-> TextAt(i), section |-> secs[i]]]

BatchLengths == (MIN_LINES - 1)..MaxLines
Presents == {q \in SUBSET SeqRange(sectionOrder) : Cardinality(q) >= 3}
RunLengths(n) == {1, MAX_CONSECUTIVE - 1, MAX_CONSECUTIVE, MAX_CONSECUTIVE + 1, MAX_CONSECUTIVE + 2, n}

\* section-rich batches: every layout with one tag patched, few speaker patterns
SectionRichSpeakers(n) ==
  {SpeakerPattern(n, "Nishi", 1, 1),
   SpeakerPattern(n, "Shyam", 2, MAX_CONSECUTIVE + 1),
   Patch(SpeakerPattern(n, "Shyam", 1, 1), 3 :> "Alex")}

IsSectionRich(b) ==
  \E n \in BatchLengths, present \in Presents, u \in {0, 1}, base \in {0, 1} :
    \E f \in Patches(n, AllSections, 1), spks \in SectionRichSpeakers(n) :
      b = MkLines(Patch(SectionLayout(n, present, u), f), spks, base)

\* speaker-rich batches: every run, up to two lines by other speakers, few layouts
SpeakerRichSections(n) ==
  {SectionLayout(n, SeqRange(sectionOrder), 0),
   SectionLayout(n, SeqRange(sectionOrder) \ {"greeting"}, 0),
   Patch(SectionLayout(n, SeqRange(sectionOrder), 0), 3 :> "signoff")}

IsSpeakerRich(b) ==
  \E n \in BatchLengths, x \in SPEAKERS :
    \E r \in {r \in RunLengths(n) : r <= n}, p \in 1..n :
      \E f \in Patches(n, InvalidSpeakers, 2), secs \in SpeakerRichSections(n) :
        b = MkLines(secs, Patch(SpeakerPattern(n, x, p, r), f), 1)

\* short batches: fewer lines than the minimum, with and without other defects
ShortLengths == 0..(MIN_LINES - 2)
IsShort(b) ==
  \E n \in ShortLengths, x \in SPEAKERS, r \in {1, MAX_CONSECUTIVE + 1} :
    \E secs \in {[i \in 1..n |-> "explanation"],
                 [i \in 1..n |-> sectionOrder[((i - 1) % Len(sectionOrder)) + 1]],
                 [i \in 1..n |-> sectionOrder[Len(sectionOrder) - ((i - 1) % Len(sectionOrder))]]},
       f \in Patches(n, InvalidSpeakers, 1) :
      /\ r <= n \/ r = 1
      /\ b = MkLines(secs, Patch(SpeakerPattern(n, x, 1, r), f), 1)

\* a text of k words; with `wide`, padded with white space and with two
\* spaces after the first word
WordsText(k, wide) ==
  LET plain == [i \in 1..(2 * k - 1) |-> IF i % 2 = 1 THEN "w" ELSE "_"]
  IN IF wide /\ k > 1
     THEN <<"_", "w", "_">> \o SubSeq(plain, 2, Len(plain)) \o <<"_", "_">>
     ELSE plain

\* words per line that bring a batch of MIN_LINES lines to the limits of the
\* duration range
WordsAtMin == (MIN_DURATION * WORDS_PER_MINUTE) \div (60 * MIN_LINES)
WordsAtMax == (MAX_DURATION * WORDS_PER_MINUTE) \div (60 * MIN_LINES)
WordsPerLine == {WordsAtMin - 1, WordsAtMin, WordsAtMax, WordsAtMax + 1}

\* duration-rich batches: well-formed batches of MIN_LINES lines whose word
\* counts run over the totals around both limits of the duration range
IsDurationRich(b) ==
  \E w \in WordsPerLine, extra \in 0..4, wide \in BOOLEAN :
    LET lines == MkLines(SectionLayout(MIN_LINES, SeqRange(sectionOrder), 0),
                         SpeakerPattern(MIN_LINES, "Nishi", 1, 1), 1)
    IN b = [i \in 1..MIN_LINES |->
              [lines[i] EXCEPT !.text = WordsText(IF i = 1 THEN w + extra ELSE w, wide)]]

(***************************************************************************)
(* State.                                                                  *)
(***************************************************************************)
VARIABLES
  raw,            \* the lines of the language model's answer (rawScript.lines)
  gsResult,       \* what generateScript returned or threw
  \* generateAudioSegmentsWithRetry / generateAudioSegments
  rpc,            \* where the retry wrapper stands
  ttsId,          \* its scriptId argument
  ttsLines,       \* its lines argument
  maxRetries,     \* its maxRetries argument
  attempt,        \* the loop variable
  linePos,        \* position in `lines` of the line being synthesized
  segments,       \* the segments array of the running generateAudioSegments call
  lastError,      \* lastError
  ttsResult,      \* what the wrapper returned or threw
  delays,         \* the delays handed to setTimeout, in order
  segFiles,       \* the segment files on disk: path -> attempt that wrote it
  attemptsStarted,\* number of generateAudioSegments calls made
  attemptsFailed, \* number of them that threw
  outstanding,    \* positions of the lines whose synthesizeLine call is awaited
  \* stitchAudioSegments
  stitchResult,   \* what stitchAudioSegments returned or threw
  audioFiles,     \* script ids with an output file audio/<id>.mp3 on disk
  concatFile,     \* temp/concat_list.txt: <<>> when absent, else <<its entries>>
  \* stitchAudioSegments, one call per script id, await by await
  spc,            \* where the call for each script id stands
  stitchSegs,     \* its segments argument
  listWritten,    \* the entries createConcatFile wrote for it, <<>> before
  listRead,       \* the entries ffmpeg read for it, <<>> before
  toolExit,       \* how ffmpeg ended for it
  stitchOut,      \* what the call returned or threw
  pathWriters,    \* for each path written, the calls that wrote it
  stitchTrace,    \* the operations each call awaited, with how they ended
  \* generatePodcast
  pc,             \* where generatePodcast stands
  stageNo,        \* the stage block it is in (1..4)
  onProgress,     \* whether the onProgress argument was supplied
  stages,         \* the stages array
  notes,          \* the calls of onProgress, in order
  calls,          \* the delegates invoked, in order
  thrown,         \* the error generatePodcast threw
  delegateError,  \* the stage whose delegate threw, and its error
  savedScripts,   \* scripts/<id>.json on disk
  savedMetadata,  \* metadata/<id>.json on disk
  podcast,        \* the Podcast returned
  \* the POST handlers of routes/podcast.ts
  endpoint,       \* the handler that took the request: "none", "plain" or "stream"
  request,        \* the input and type of the request body
  response,       \* what the handler answered
  \* usePodcastGeneration and streamPodcastGeneration (frontend)
  hookState,      \* state: "idle", "loading", "success" or "error"
  hookResult,     \* result: the event stream whose complete event was taken, 0 for null
  hookError,      \* error: the message set, "" for null
  hookProgress,   \* progress: the number of progress events shown since the last reset
  cleanupRef,     \* cleanupRef.current: the stream its function aborts, 0 for null
  generated,      \* the number of streamPodcastGeneration calls made
  streamStatus,   \* where the promise chain of each call stands
  streamEvents    \* the number of events each call has read

vvars == <<raw, gsResult>>
rvars == <<rpc, ttsId, ttsLines, maxRetries, attempt, linePos, segments, lastError,
           ttsResult, delays, segFiles, attemptsStarted, attemptsFailed, outstanding>>
jvars == <<spc, stitchSegs, listWritten, listRead, toolExit, stitchOut, pathWriters,
           stitchTrace>>
svars == <<stitchResult, audioFiles, concatFile, jvars>>
fvars == <<hookState, hookResult, hookError, hookProgress, cleanupRef, generated,
           streamStatus, streamEvents>>
hvars == <<endpoint, request, response, fvars>>
ovars == <<pc, stageNo, onProgress, stages, notes, calls, thrown, delegateError,
           savedScripts, savedMetadata, podcast, hvars>>
vars == <<vvars, rvars, svars, ovars>>

StageNames == <<"fetch", "generate_script", "synthesize_audio", "stitch_audio">>

\* createStage(name): { name, status: 'pending' }
createStage(name) == [name |-> name, status |-> "pending", error |-> NoError]

NoStitch ==
  [status |-> "none", filePath |-> "", durationSeconds |-> 0, fileSizeBytes |-> 0,
   error |-> NoError]
NoPodcast == [id |-> "", audioFilePath |-> "", durationSeconds |-> 0, fileSizeBytes |-> 0]

\* the script ids of the calls that may run side by side
RunIds == {"s1", "s2"}

JobsIdle ==
  /\ spc = [r \in RunIds |-> "idle"]
  /\ stitchSegs = [r \in RunIds |-> <<>>]
  /\ listWritten = [r \in RunIds |-> <<>>]
  /\ listRead = [r \in RunIds |-> <<>>]
  /\ toolExit = [r \in RunIds |-> "none"]
  /\ stitchOut = [r \in RunIds |-> NoStitch]
  /\ pathWriters = [q \in {} |-> {}]
  /\ stitchTrace = [r \in RunIds |-> <<>>]

StitchIdle ==
  /\ stitchResult = NoStitch /\ audioFiles = {} /\ concatFile = <<>>
  /\ JobsIdle

(***************************************************************************)
(* Input validation (utils/validation.ts) and the two POST handlers        *)
(* (routes/podcast.ts 15-108, 144-212).  The `input` of a request body is  *)
(* described by what the validation looks at.                              *)
(***************************************************************************)
\* a string input: is it blank once trimmed, does it start with http, does it
\* match WIKIPEDIA_URL_EXTENDED, does it match the English host pattern, is it
\* longer than 256 characters, is it made of digits only
StringInput(blank, http, wiki, english, long, digits) ==
  [kind |-> "string", blank |-> blank, http |-> http, wiki |-> wiki,
   english |-> english, long |-> long, digits |-> digits]

\* a body without `input`, and an `input` that is a JSON number
MissingInput == [StringInput(TRUE, FALSE, FALSE, FALSE, FALSE, FALSE) EXCEPT !.kind = "undefined"]
NumberInput == [StringInput(FALSE, FALSE, FALSE, FALSE, FALSE, TRUE) EXCEPT !.kind = "number"]

\* 'https://en.wikipedia.org/wiki/Test', 'https://de.wikipedia.org/wiki/Test',
\* 'https://google.com', 'Albert Einstein', '12345', '   ', a title of 300
\* characters, no input, 123
RequestInputs ==
  {StringInput(FALSE, TRUE, TRUE, TRUE, FALSE, FALSE),
   StringInput(FALSE, TRUE, TRUE, FALSE, FALSE, FALSE),
   StringInput(FALSE, TRUE, FALSE, FALSE, FALSE, FALSE),
   StringInput(FALSE, FALSE, FALSE, FALSE, FALSE, FALSE),
   StringInput(FALSE, FALSE, FALSE, FALSE, FALSE, TRUE),
   StringInput(TRUE, FALSE, FALSE, FALSE, FALSE, FALSE),
   StringInput(FALSE, FALSE, FALSE, FALSE, TRUE, FALSE),
   MissingInput, NumberInput}

\* the `type` of a request body; "none" when it is absent
RequestTypes == {"none", "url", "title"}

\* input.trim().toLowerCase().startsWith('http')
isUrl(input) == input.http

\* WIKIPEDIA_URL_EXTENDED.test(input.trim())
isWikipediaUrl(input) == input.wiki

\* isUrl(input) ? 'url' : 'title'
detectInputType(input) == IF isUrl(input) THEN "url" ELSE "title"

\* validateWikipediaUrl: the error message, "" for null
validateWikipediaUrl(url) ==
  IF url.blank THEN "URL cannot be empty"
  ELSE IF ~isUrl(url) THEN "Input does not appear to be a URL"
  ELSE IF ~isWikipediaUrl(url) THEN "URL must be a valid Wikipedia article URL"
  ELSE IF ~url.english THEN "Only English Wikipedia articles are supported"
  ELSE ""

\* validateTitle: the error message, "" for null
validateTitle(title) ==
  IF title.blank THEN "Article title cannot be empty"
  ELSE IF title.long THEN "Article title is too long (max 256 characters)"
  ELSE IF title.digits THEN "Article title cannot be just numbers"
  ELSE ""

\* validatePodcastInput(input, type): input?.trim() throws a TypeError when
\* input is neither a string nor null or undefined
validatePodcastInput(input, type) ==
  IF input.kind = "number"
  THEN [threw |-> TRUE, valid |-> FALSE, error |-> "", type |-> "none"]
  ELSE IF input.kind = "undefined" \/ input.blank
  THEN [threw |-> FALSE, valid |-> FALSE, error |-> "Input is required",
        type |-> IF type = "none" THEN "url" ELSE type]
  ELSE LET detectedType == IF type = "none" THEN detectInputType(input) ELSE type
           error == IF detectedType = "url" THEN validateWikipediaUrl(input)
                    ELSE validateTitle(input)
       IN [threw |-> FALSE, valid |-> error = "", error |-> error, type |-> detectedType]

\* export const validateInput = validatePodcastInput
validateInput(input, type) == validatePodcastInput(input, type)

\* new AppError(code, message, statusCode)
AppError(code, message, statusCode) ==
  [kind |-> "AppError", tag |-> message, num |-> statusCode, cause |-> <<>>]

\* the fragments the handlers look for that the message of an error contains:
\* 'Article not found: "..."', 'Wikipedia API error: ...' and 'Script too short:
\* ...' hold one each; a message ending with another error's message holds what
\* that one holds
RECURSIVE MessageFragments(_)
MessageFragments(err) ==
  (CASE err.kind = "ArticleNotFound" -> {"not found"}
     [] err.kind = "WikipediaApiError" -> {"Wikipedia"}
     [] err.kind = "ScriptTooShort" -> {"too short"}
     [] OTHER -> {})
  \cup (IF err.cause = <<>> THEN {} ELSE MessageFragments(err.cause[1]))

\* the catch blocks of both handlers: the code and status for a plain Error
ClassifyError(err) ==
  LET has == MessageFragments(err)
  IN IF "not found" \in has THEN [code |-> "ARTICLE_NOT_FOUND", status |-> 404]
     ELSE IF "too short" \in has THEN [code |-> "ARTICLE_TOO_SHORT", status |-> 400]
     ELSE IF "Wikipedia" \in has \/ "unavailable" \in has
     THEN [code |-> "SERVICE_UNAVAILABLE", status |-> 503]
     ELSE [code |-> "GENERATION_FAILED", status |-> 500]

NoRequest == [input |-> MissingInput, type |-> "none"]
NoResponse == [status |-> 0, events |-> <<>>, error |-> "", message |-> NoError]

\* res.status(status).json({ error, message })
JsonError(status, code, err) ==
  [status |-> status, events |-> <<>>, error |-> code, message |-> err]

\* the event stream with its one closing event
SseEnd(event, code, err) ==
  [status |-> 200, events |-> <<event>>, error |-> code, message |-> err]

\* no request has arrived
RoutesIdle == endpoint = "none" /\ request = NoRequest /\ response = NoResponse


\* the hook as useState and useRef create it, no stream opened
StreamIds == 1..MaxStreams
HookIdle ==
  /\ hookState = "idle" /\ hookResult = 0 /\ hookError = "" /\ hookProgress = 0
  /\ cleanupRef = 0 /\ generated = 0
  /\ streamStatus = [i \in StreamIds |-> "unused"]
  /\ streamEvents = [i \in StreamIds |-> 0]

\* generatePodcast not called yet; the stages array as it is created
PodcastIdle ==
  /\ pc = "idle" /\ stageNo = 0 /\ onProgress = FALSE
  /\ stages = [k \in 1..Len(StageNames) |-> createStage(StageNames[k])]
  /\ notes = <<>> /\ calls = <<>> /\ thrown = NoError
  /\ delegateError = [stage |-> 0, error |-> NoError]
  /\ savedScripts = {} /\ savedMetadata = {} /\ podcast = NoPodcast
  /\ RoutesIdle
  /\ HookIdle

(***************************************************************************)
(* Speech synthesis with retry: generateAudioSegments (services/tts.ts     *)
(* 123-172) and generateAudioSegmentsWithRetry (177-199).  Every await is  *)
(* a step; the code between two awaits runs in one step.                   *)
(***************************************************************************)
NoResult == [status |-> "none", segments |-> <<>>, error |-> NoError]
NoFiles == [q \in {} |-> 0]

RECURSIVE Pow2(_)
Pow2(n) == IF n <= 0 THEN 1 ELSE 2 * Pow2(n - 1)

\* a delay that grows by one base per attempt
BackoffDelay_Linear(a) == (a + 1) * BACKOFF_BASE_MS

\* const delay = Math.pow(2, attempt) * 1000
BackoffDelay(a) == Pow2(a) * BACKOFF_BASE_MS

\* the loop that stops one attempt early
LoopContinues_OffByOne(a, maxR) == a < maxR

\* for (let attempt = 0; attempt <= maxRetries; attempt++)
LoopContinues(a, maxR) == a <= maxR

\* if (attempt < maxRetries)
RetriesRemain(a, maxR) == a < maxR

\* `TTS generation failed after ${maxRetries + 1} attempts: ${lastError?.message}`
RetryFailure(maxR, err) == Wrap("TtsFailedAfter", maxR + 1, err)

\* a segments array that outlives the call
InitialSegments_Shared(earlier) == earlier

\* const segments: AudioSegment[] = [], whatever an earlier call had collected
InitialSegments(earlier) == <<>>

\* path.join(segmentsDir, `${String(line.index).padStart(3, '0')}.mp3`)
SegmentPath(scriptId, line) == <<scriptId, line.index>>

RetryIdle ==
  /\ rpc = "idle" /\ ttsId = "" /\ ttsLines = <<>> /\ maxRetries = 0
  /\ attempt = 0 /\ linePos = 0 /\ segments = <<>> /\ lastError = NoError
  /\ ttsResult = NoResult /\ delays = <<>> /\ segFiles = NoFiles
  /\ attemptsStarted = 0 /\ attemptsFailed = 0 /\ outstanding = {}

\* the loop head with the loop variable at a: call generateAudioSegments, or
\* leave the loop and throw
LoopHead(a, maxR, err) ==
  /\ attempt' = a
  /\ IF LoopContinues(a, maxR)
     THEN /\ rpc' = "mkdir"
          /\ attemptsStarted' = attemptsStarted + 1
          /\ ttsResult' = ttsResult
     ELSE /\ rpc' = "thrown"
          /\ attemptsStarted' = attemptsStarted
          /\ ttsResult' = [status |-> "err", segments |-> <<>>,
                           error |-> RetryFailure(maxR, err)]

\* generateAudioSegmentsWithRetry(scriptId, lines, maxRetries) is called
RetryCall(scriptId, lines, maxR) ==
  /\ rpc = "idle"
  /\ ttsId' = scriptId /\ ttsLines' = lines /\ maxRetries' = maxR
  /\ LoopHead(0, maxR, NoError)
  /\ UNCHANGED <<linePos, segments, lastError, delays, segFiles, attemptsFailed,
                 outstanding>>

\* generateAudioSegments threw err: the catch block of the wrapper
AttemptFails(err) ==
  /\ lastError' = err
  /\ attemptsFailed' = attemptsFailed + 1
  /\ IF RetriesRemain(attempt, maxRetries)
     THEN /\ delays' = Append(delays, BackoffDelay(attempt))
          /\ rpc' = "sleep"
          /\ UNCHANGED <<attempt, attemptsStarted, ttsResult>>
     ELSE /\ delays' = delays
          /\ LoopHead(attempt + 1, maxRetries, err)

\* a loop that starts the calls for all remaining lines at once
CallsIssued_FanOut(p) == p..Len(ttsLines)

\* await synthesizeLine(line.text, speaker.voiceId, filePath): one call, for the
\* line the loop stands at
CallsIssued(p) == {p}

\* the for loop of generateAudioSegments reaches position p with segs collected,
\* the call for the line before having settled
EnterLine(p, segs) ==
  /\ linePos' = p
  /\ segments' = segs
  /\ outstanding' = (outstanding \ {linePos})
                      \cup (IF p <= Len(ttsLines) /\ ttsLines[p].speaker \in SPEAKERS
                            THEN CallsIssued(p) ELSE {})
  /\ IF p > Len(ttsLines)
     THEN /\ rpc' = "returned"
          /\ ttsResult' = [status |-> "ok", segments |-> segs, error |-> NoError]
          /\ UNCHANGED <<attempt, lastError, delays, attemptsStarted, attemptsFailed>>
     ELSE IF ttsLines[p].speaker \notin SPEAKERS
          THEN AttemptFails(Msg("UnknownSpeaker", ttsLines[p].speaker, 0))
          ELSE /\ rpc' = "line"
               /\ UNCHANGED <<attempt, lastError, delays, attemptsStarted,
                              attemptsFailed, ttsResult>>

\* await new Promise(resolve => setTimeout(resolve, delay)) is over
SleepDone ==
  /\ rpc = "sleep"
  /\ LoopHead(attempt + 1, maxRetries, lastError)
  /\ UNCHANGED <<ttsId, ttsLines, maxRetries, linePos, segments, lastError, delays,
                 segFiles, attemptsFailed, outstanding>>
  /\ UNCHANGED <<vvars, svars, ovars>>

\* await ensureSegmentsDirectory(scriptId) succeeds
MkdirOk ==
  /\ rpc = "mkdir"
  /\ EnterLine(1, InitialSegments(segments))
  /\ UNCHANGED <<ttsId, ttsLines, maxRetries, segFiles>>
  /\ UNCHANGED <<vvars, svars, ovars>>

\* ... or throws 'Failed to create segments directory'
MkdirFail ==
  /\ rpc = "mkdir"
  /\ AttemptFails(Msg("SegmentsDirFailed", "", 0))
  /\ UNCHANGED <<ttsId, ttsLines, maxRetries, linePos, segments, segFiles, outstanding>>
  /\ UNCHANGED <<vvars, svars, ovars>>

\* await synthesizeLine(...) wrote the clip; the segment is pushed
SynthLineOk ==
  /\ rpc = "line"
  /\ LET line == ttsLines[linePos]
         path == SegmentPath(ttsId, line)
         segment == [lineIndex |-> line.index, speaker |-> line.speaker,
                     filePath |-> path, madeIn |-> attemptsStarted]
     IN /\ segFiles' = (path :> attemptsStarted) @@ segFiles
        /\ EnterLine(linePos + 1, Append(segments, segment))
  /\ UNCHANGED <<ttsId, ttsLines, maxRetries>>
  /\ UNCHANGED <<vvars, svars, ovars>>

\* await synthesizeLine(...) threw: `Failed to synthesize line ${line.index}: ...`
SynthLineFail ==
  /\ rpc = "line"
  /\ AttemptFails(Wrap("FailedToSynthesizeLine", ttsLines[linePos].index,
                       Msg("ElevenLabsApiError", "", 503)))
  /\ outstanding' = outstanding \ {linePos}
  /\ UNCHANGED <<ttsId, ttsLines, maxRetries, linePos, segments, segFiles>>
  /\ UNCHANGED <<vvars, svars, ovars>>

RetrySteps == SleepDone \/ MkdirOk \/ MkdirFail \/ SynthLineOk \/ SynthLineFail

(***************************************************************************)
(* Audio stitcher: stitchAudioSegments (services/audioStitcher.ts 82-165). *)
(* What the file system, ffmpeg and ffprobe do is the environment `env`.   *)
(***************************************************************************)
\* [...segments].sort((a, b) => a.lineIndex - b.lineIndex), a stable sort
RECURSIVE InsertByLineIndex(_, _)
InsertByLineIndex(sorted, seg) ==
  IF sorted = <<>> THEN <<seg>>
  ELSE IF seg.lineIndex < Head(sorted).lineIndex THEN <<seg>> \o sorted
  ELSE <<Head(sorted)>> \o InsertByLineIndex(Tail(sorted), seg)

RECURSIVE SortByLineIndex(_)
SortByLineIndex(segs) ==
  IF segs = <<>> THEN <<>>
  ELSE InsertByLineIndex(SortByLineIndex(SubSeq(segs, 1, Len(segs) - 1)), segs[Len(segs)])

\* a list written in the order the segments were passed
ConcatEntries_InputOrder(segs) == [i \in 1..Len(segs) |-> segs[i].filePath]

\* createConcatFile: one `file '<path>'` entry per segment, in sorted order
ConcatEntries(segs) ==
  LET sortedSegments == SortByLineIndex(segs)
  IN [i \in 1..Len(sortedSegments) |-> sortedSegments[i].filePath]

\* Math.round of a duration given in tenths of a second
RoundTenths(t) == (t + 5) \div 10

\* a stitcher that takes an empty list
NoSegments_Unchecked(segs) == FALSE

\* if (segments.length === 0)
NoSegments(segs) == Len(segs) = 0

\* a stitcher that goes on without the tool
FFmpegMissing_Ignored(available) == FALSE

\* if (!ffmpegAvailable)
FFmpegMissing(available) == ~available

\* a check of stderr that lets every run of the tool pass
StderrHasError_Ignored(exec) == FALSE

\* stderr.toLowerCase().includes('error'), for a tool that exited with 0
StderrHasError(exec) == exec = "stderr"

\* throw new Error(`Audio stitching failed: ${error.message}`)
StitchFailure(err) == Wrap("AudioStitchingFailed", 0, err)

StitchThrows(err, wrote, op) ==
  [result |-> [NoStitch EXCEPT !.status = "err", !.error = err],
   wroteOutput |-> wrote, concatOp |-> op]

\* the outcome of one call: the result or the error, whether audio/<id>.mp3 was
\* written, and what happened to temp/concat_list.txt (keep, write, remove)
stitchAudioSegments(scriptId, segs, env) ==
  IF NoSegments(segs) THEN StitchThrows(Msg("NoAudioSegments", "", 0), FALSE, "keep")
  ELSE IF FFmpegMissing(env.ffmpeg) THEN StitchThrows(Msg("FFmpegNotAvailable", "", 0), FALSE, "keep")
  ELSE IF ~env.mkdirAudio THEN StitchThrows(Msg("AudioDirFailed", "", 0), FALSE, "keep")
  ELSE IF ~env.mkdirTemp THEN StitchThrows(Msg("FsError", "mkdir", 0), FALSE, "keep")
  ELSE IF ~env.writeList
       THEN StitchThrows(StitchFailure(Msg("FsError", "writeFile", 0)), FALSE, "keep")
  ELSE IF env.exec = "exit"
       THEN StitchThrows(StitchFailure(Msg("CommandFailed", "ffmpeg", 1)), env.partial, "write")
  ELSE IF StderrHasError(env.exec)
       THEN StitchThrows(StitchFailure(Msg("FFmpegError", "", 0)), TRUE, "write")
  ELSE IF ~env.statOk
       THEN StitchThrows(StitchFailure(Msg("FsError", "stat", 0)), TRUE, "write")
  ELSE [result |-> [status |-> "ok", filePath |-> scriptId,
                    durationSeconds |-> IF env.probeOk THEN RoundTenths(env.probe) ELSE 0,
                    fileSizeBytes |-> env.size, error |-> NoError],
        wroteOutput |-> TRUE,
        concatOp |-> IF env.unlinkOk THEN "remove" ELSE "write"]

\* the environments tried: all is well, or one thing goes wrong
GoodEnv ==
  [ffmpeg |-> TRUE, mkdirAudio |-> TRUE, mkdirTemp |-> TRUE, writeList |-> TRUE,
   exec |-> "ok", partial |-> FALSE, probeOk |-> TRUE, probe |-> 1494,
   statOk |-> TRUE, unlinkOk |-> TRUE, size |-> 2400]
StitchEnvs ==
  {GoodEnv, [GoodEnv EXCEPT !.probe = 1495], [GoodEnv EXCEPT !.probeOk = FALSE],
   [GoodEnv EXCEPT !.unlinkOk = FALSE], [GoodEnv EXCEPT !.ffmpeg = FALSE],
   [GoodEnv EXCEPT !.mkdirAudio = FALSE], [GoodEnv EXCEPT !.mkdirTemp = FALSE],
   [GoodEnv EXCEPT !.writeList = FALSE], [GoodEnv EXCEPT !.exec = "exit"],
   [GoodEnv EXCEPT !.exec = "exit", !.partial = TRUE],
   [GoodEnv EXCEPT !.exec = "stderr"], [GoodEnv EXCEPT !.statOk = FALSE]}

\* one call of stitchAudioSegments and its effects on the disk
StitchCall(scriptId, segs, env) ==
  LET out == stitchAudioSegments(scriptId, segs, env)
  IN /\ stitchResult' = out.result
     /\ audioFiles' = IF out.wroteOutput THEN audioFiles \cup {scriptId} ELSE audioFiles
     /\ concatFile' = CASE out.concatOp = "keep" -> concatFile
                        [] out.concatOp = "write" -> <<ConcatEntries(segs)>>
                        [] out.concatOp = "remove" -> <<>>
     /\ UNCHANGED jvars

(***************************************************************************)
(* Orchestrator: generatePodcast (prompts/podcast.ts 564-720).  A step     *)
(* ends at an await; marking a stage in progress and invoking its delegate *)
(* is one step, the delegate's outcome and what follows it up to the next  *)
(* stage block is another.                                                 *)
(***************************************************************************)
\* stage block 4 written on the slot of stage 3
StageSlot_CopyPaste(k) == IF k = 4 THEN 3 ELSE k

\* stage block k works on stages[k - 1] (0-based), here stages[k]
StageSlot(k) == k

\* if (onProgress) onProgress(stage)
Notify(ns, stage) ==
  IF onProgress THEN Append(ns, [name |-> stage.name, status |-> stage.status]) ELSE ns

\* stages.find(s => s.status === 'in_progress'), 0 when there is none
FindInProgress(st) ==
  IF \E k \in 1..Len(st) : st[k].status = "in_progress"
  THEN CHOOSE k \in 1..Len(st) :
         /\ st[k].status = "in_progress"
         /\ \A j \in 1..(k - 1) : st[j].status # "in_progress"
  ELSE 0

\* error instanceof Error ? error.message : 'Unknown error'
ErrorText(err) == err

\* an orchestrator that translates the error
Rethrow_Translated(err) == Wrap("PodcastGenerationFailed", 0, err)

\* throw error
Rethrow(err) == err

\* a catch block that marks the stage but does not report it
Catch_Silent(err) ==
  LET cur == FindInProgress(stages)
      failed == [stages EXCEPT ![cur].status = "failed", ![cur].error = ErrorText(err)]
  IN /\ stages' = IF cur > 0 THEN failed ELSE stages
     /\ notes' = notes
     /\ thrown' = Rethrow(err)
     /\ pc' = "raised"

\* the catch block: mark the stage in progress failed, report it, rethrow
Catch(err) ==
  LET cur == FindInProgress(stages)
      failed == [stages EXCEPT ![cur].status = "failed", ![cur].error = ErrorText(err)]
  IN /\ stages' = IF cur > 0 THEN failed ELSE stages
     /\ notes' = IF cur > 0 THEN Notify(notes, failed[cur]) ELSE notes
     /\ thrown' = Rethrow(err)
     /\ pc' = "raised"

\* a stage block that goes on without marking its stage
Complete_NotMarked(k) == stages' = stages /\ notes' = notes

\* stages[k].status = 'completed'; if (onProgress) onProgress(stages[k])
Complete(k) ==
  LET done == [stages EXCEPT ![StageSlot(k)].status = "completed"]
  IN /\ stages' = done
     /\ notes' = Notify(notes, done[StageSlot(k)])

\* the answers the language model is made to give in a pipeline run: a valid
\* batch, a short one, one with a run of 6, and a valid one whose first two
\* lines carry each other's index
PipelineBatches ==
  {MkLines(SectionLayout(MIN_LINES, SeqRange(sectionOrder), 0),
           SpeakerPattern(MIN_LINES, "Nishi", 1, 1), 1),
   MkLines(SectionLayout(MIN_LINES - 1, SeqRange(sectionOrder), 0),
           SpeakerPattern(MIN_LINES - 1, "Nishi", 1, 1), 1),
   MkLines(SectionLayout(MIN_LINES, SeqRange(sectionOrder), 0),
           SpeakerPattern(MIN_LINES, "Shyam", 3, MAX_CONSECUTIVE + 1), 1),
   [MkLines(SectionLayout(MIN_LINES, SeqRange(sectionOrder), 0),
            SpeakerPattern(MIN_LINES, "Nishi", 1, 1), 1)
      EXCEPT ![1].index = 2, ![2].index = 1]}

FetchErrors == {Msg("ArticleNotFound", "t1", 0), Msg("WikipediaApiError", "", 503)}

\* generatePodcast(input, type, onProgress) is called
GenerateCall ==
  /\ pc = "idle" /\ endpoint = "none"
  /\ \E cb \in BOOLEAN : onProgress' = cb
  /\ pc' = "begin" /\ stageNo' = 1
  /\ UNCHANGED <<vvars, rvars, svars, stages, notes, calls, thrown, delegateError,
                 savedScripts, savedMetadata, podcast>>
  /\ UNCHANGED hvars

\* an orchestrator that asks for one retry more
SynthesisMaxRetries_OneMore == DEFAULT_MAX_RETRIES + 1

\* generateAudioSegmentsWithRetry(script.id, script.lines): no third argument,
\* so maxRetries takes its default
SynthesisMaxRetries == DEFAULT_MAX_RETRIES

\* stages[k].status = 'in_progress'; notify; the delegate of the stage is invoked
BeginStage ==
  /\ pc = "begin"
  /\ LET k == stageNo
         started == [stages EXCEPT ![StageSlot(k)].status = "in_progress"]
     IN /\ stages' = started
        /\ notes' = Notify(notes, started[StageSlot(k)])
        /\ calls' = Append(calls, StageNames[k])
        /\ IF k = 3
           THEN RetryCall(gsResult.script.id, gsResult.script.lines, SynthesisMaxRetries)
           ELSE UNCHANGED rvars
  /\ pc' = "await"
  /\ UNCHANGED <<vvars, svars, stageNo, onProgress, thrown, delegateError,
                 savedScripts, savedMetadata, podcast>>
  /\ UNCHANGED hvars

\* await fetchArticle(input, type) resolves
FetchOk ==
  /\ pc = "await" /\ stageNo = 1
  /\ Complete(1)
  /\ pc' = "begin" /\ stageNo' = 2
  /\ UNCHANGED <<vvars, rvars, svars, onProgress, calls, thrown, delegateError,
                 savedScripts, savedMetadata, podcast>>
  /\ UNCHANGED hvars

\* ... or rejects
FetchFail ==
  /\ pc = "await" /\ stageNo = 1
  /\ \E err \in FetchErrors :
       /\ delegateError' = [stage |-> 1, error |-> err]
       /\ Catch(err)
  /\ UNCHANGED <<vvars, rvars, svars, stageNo, onProgress, calls,
                 savedScripts, savedMetadata, podcast>>
  /\ UNCHANGED hvars

\* await generateScript(article): the model answers, the answer is validated
ScriptAnswer ==
  /\ pc = "await" /\ stageNo = 2
  /\ \E batch \in PipelineBatches :
       LET res == generateScript("t1", batch)
       IN /\ raw' = batch
          /\ gsResult' = res
          /\ IF res.ok
             THEN /\ Complete(2)
                  /\ pc' = "save_script"
                  /\ UNCHANGED <<thrown, delegateError>>
             ELSE /\ delegateError' = [stage |-> 2, error |-> res.error]
                  /\ Catch(res.error)
  /\ UNCHANGED <<rvars, svars, stageNo, onProgress, calls,
                 savedScripts, savedMetadata, podcast>>
  /\ UNCHANGED hvars

\* await generateScript(article): the call of the language model fails
GrokFail ==
  /\ pc = "await" /\ stageNo = 2
  /\ delegateError' = [stage |-> 2, error |-> Msg("GrokApiError", "", 500)]
  /\ Catch(Msg("GrokApiError", "", 500))
  /\ UNCHANGED <<vvars, rvars, svars, stageNo, onProgress, calls,
                 savedScripts, savedMetadata, podcast>>
  /\ UNCHANGED hvars

\* a run that goes on to synthesis without saving the script
SaveScriptOk_NotWritten ==
  /\ pc = "save_script"
  /\ pc' = "begin" /\ stageNo' = 3
  /\ UNCHANGED <<vvars, rvars, svars, onProgress, stages, notes, calls, thrown,
                 delegateError, savedScripts, savedMetadata, podcast>>
  /\ UNCHANGED hvars

\* await saveScript(script.id, script) resolves
SaveScriptOk ==
  /\ pc = "save_script"
  /\ savedScripts' = savedScripts \cup {gsResult.script.id}
  /\ pc' = "begin" /\ stageNo' = 3
  /\ UNCHANGED <<vvars, rvars, svars, onProgress, stages, notes, calls, thrown,
                 delegateError, savedMetadata, podcast>>
  /\ UNCHANGED hvars

\* ... or rejects (mkdir or writeFile fails)
SaveScriptFail ==
  /\ pc = "save_script"
  /\ Catch(Msg("FsError", "saveScript", 0))
  /\ UNCHANGED <<vvars, rvars, svars, stageNo, onProgress, calls, delegateError,
                 savedScripts, savedMetadata, podcast>>
  /\ UNCHANGED hvars

\* await generateAudioSegmentsWithRetry(script.id, script.lines) resolves
SynthReturned ==
  /\ pc = "await" /\ stageNo = 3 /\ rpc = "returned"
  /\ Complete(3)
  /\ pc' = "begin" /\ stageNo' = 4
  /\ UNCHANGED <<vvars, rvars, svars, onProgress, calls, thrown, delegateError,
                 savedScripts, savedMetadata, podcast>>
  /\ UNCHANGED hvars

\* ... or rejects
SynthThrown ==
  /\ pc = "await" /\ stageNo = 3 /\ rpc = "thrown"
  /\ delegateError' = [stage |-> 3, error |-> ttsResult.error]
  /\ Catch(ttsResult.error)
  /\ UNCHANGED <<vvars, rvars, svars, stageNo, onProgress, calls,
                 savedScripts, savedMetadata, podcast>>
  /\ UNCHANGED hvars

\* await stitchAudioSegments(script.id, audioSegments) resolves or rejects
StitchResolve ==
  /\ pc = "await" /\ stageNo = 4
  /\ \E env \in StitchEnvs :
       /\ StitchCall(gsResult.script.id, ttsResult.segments, env)
       /\ IF stitchResult'.status = "ok"
          THEN /\ Complete(4)
               /\ pc' = "save_meta"
               /\ UNCHANGED <<thrown, delegateError>>
          ELSE /\ delegateError' = [stage |-> 4, error |-> stitchResult'.error]
               /\ Catch(stitchResult'.error)
  /\ UNCHANGED <<vvars, rvars, stageNo, onProgress, calls,
                 savedScripts, savedMetadata, podcast>>
  /\ UNCHANGED hvars

\* a run that fails after its metadata record is on disk
SaveMetadataOk_ThenThrows ==
  /\ pc = "save_meta"
  /\ savedMetadata' = savedMetadata \cup {[id |-> gsResult.script.id, stages |-> stages]}
  /\ Catch(Msg("FsError", "saveMetadata", 0))
  /\ UNCHANGED <<vvars, rvars, svars, stageNo, onProgress, calls, delegateError,
                 savedScripts, podcast>>
  /\ UNCHANGED hvars

\* the Podcast and the metadata are built; await saveMetadata(metadata) resolves
SaveMetadataOk ==
  /\ pc = "save_meta"
  /\ savedMetadata' = savedMetadata \cup {[id |-> gsResult.script.id, stages |-> stages]}
  /\ podcast' = [id |-> gsResult.script.id, audioFilePath |-> stitchResult.filePath,
                 durationSeconds |-> stitchResult.durationSeconds,
                 fileSizeBytes |-> stitchResult.fileSizeBytes]
  /\ pc' = "returned"
  /\ UNCHANGED <<vvars, rvars, svars, stageNo, onProgress, stages, notes, calls,
                 thrown, delegateError, savedScripts>>
  /\ UNCHANGED hvars

\* ... or rejects
SaveMetadataFail ==
  /\ pc = "save_meta"
  /\ Catch(Msg("FsError", "saveMetadata", 0))
  /\ UNCHANGED <<vvars, rvars, svars, stageNo, onProgress, calls, delegateError,
                 savedScripts, savedMetadata, podcast>>
  /\ UNCHANGED hvars

\* the progress events onProgress has written to the response: one
\* `event: progress` per call, in the order of the calls
ProgressEvents == [i \in 1..Len(notes) |-> <<"progress", notes[i].name, notes[i].status>>]

\* what the streaming handler has written to the response as events
SseStream ==
  ProgressEvents \o [i \in 1..Len(response.events) |-> <<response.events[i], "", "">>]

\* router.post('/'): validate, then throw INVALID_INPUT into the catch block or
\* call generatePodcast(input, type); a TypeError of the validation lands in
\* the same catch block
PostPodcast ==
  /\ endpoint = "none" /\ pc = "idle"
  /\ \E input \in RequestInputs, type \in RequestTypes :
       LET validation == validateInput(input, type)
       IN /\ request' = [input |-> input, type |-> type]
          /\ endpoint' = "plain"
          /\ IF validation.threw
             THEN /\ response' = JsonError(ClassifyError(Msg("TypeError", "trim", 0)).status,
                                           ClassifyError(Msg("TypeError", "trim", 0)).code,
                                           Msg("TypeError", "trim", 0))
                  /\ UNCHANGED <<pc, stageNo, onProgress>>
             ELSE IF ~validation.valid
             THEN /\ response' = JsonError(400, "INVALID_INPUT",
                                           AppError("INVALID_INPUT", validation.error, 400))
                  /\ UNCHANGED <<pc, stageNo, onProgress>>
             ELSE /\ pc' = "begin" /\ stageNo' = 1 /\ onProgress' = FALSE
                  /\ UNCHANGED response
  /\ UNCHANGED <<vvars, rvars, svars, stages, notes, calls, thrown, delegateError,
                 savedScripts, savedMetadata, podcast>>
  /\ UNCHANGED fvars

\* router.post('/stream'): validate, then end the stream with an error event or
\* call generatePodcast(input, type, onProgress); a TypeError of the validation
\* lands in the outer catch block
PostStream ==
  /\ endpoint = "none" /\ pc = "idle"
  /\ \E input \in RequestInputs, type \in RequestTypes :
       LET validation == validateInput(input, type)
       IN /\ request' = [input |-> input, type |-> type]
          /\ endpoint' = "stream"
          /\ IF validation.threw
             THEN /\ response' = JsonError(500, "INTERNAL_ERROR",
                                           Msg("TypeError", "trim", 0))
                  /\ UNCHANGED <<pc, stageNo, onProgress>>
             ELSE IF ~validation.valid
             THEN /\ response' = SseEnd("error", "INVALID_INPUT",
                                        AppError("INVALID_INPUT", validation.error, 400))
                  /\ UNCHANGED <<pc, stageNo, onProgress>>
             ELSE /\ pc' = "begin" /\ stageNo' = 1 /\ onProgress' = TRUE
                  /\ UNCHANGED response
  /\ UNCHANGED <<vvars, rvars, svars, stages, notes, calls, thrown, delegateError,
                 savedScripts, savedMetadata, podcast>>
  /\ UNCHANGED fvars

\* await generatePodcast(...) settles in router.post('/')
RespondPodcast ==
  /\ endpoint = "plain" /\ response = NoResponse
  /\ pc \in {"returned", "raised"}
  /\ response' = IF pc = "returned" THEN JsonError(200, "", NoError)
                 ELSE JsonError(ClassifyError(thrown).status, ClassifyError(thrown).code,
                                thrown)
  /\ UNCHANGED <<vvars, rvars, svars, pc, stageNo, onProgress, stages, notes, calls,
                 thrown, delegateError, savedScripts, savedMetadata, podcast,
                 endpoint, request>>
  /\ UNCHANGED fvars

\* await generatePodcast(...) settles in router.post('/stream')
RespondStream ==
  /\ endpoint = "stream" /\ response = NoResponse
  /\ pc \in {"returned", "raised"}
  /\ response' = IF pc = "returned" THEN SseEnd("complete", "", NoError)
                 ELSE SseEnd("error", ClassifyError(thrown).code, thrown)
  /\ UNCHANGED <<vvars, rvars, svars, pc, stageNo, onProgress, stages, notes, calls,
                 thrown, delegateError, savedScripts, savedMetadata, podcast,
                 endpoint, request>>
  /\ UNCHANGED fvars

Init ==
  /\ raw = <<>> /\ gsResult = NotCalled
  /\ RetryIdle
  /\ StitchIdle
  /\ PodcastIdle

Next ==
  \/ GenerateCall \/ BeginStage
  \/ FetchOk \/ FetchFail
  \/ ScriptAnswer \/ GrokFail
  \/ SaveScriptOk \/ SaveScriptFail
  \/ RetrySteps \/ SynthReturned \/ SynthThrown
  \/ StitchResolve
  \/ SaveMetadataOk \/ SaveMetadataFail
  \/ PostPodcast \/ PostStream \/ RespondPodcast \/ RespondStream

Spec == Init /\ [][Next]_vars

(***************************************************************************)
(* SpecRetry: the wrapper called directly.                                 *)
(***************************************************************************)
\* a batch of n lines by the two hosts in turn, line `bad` by a stranger
TtsBatch(n, bad) ==
  [i \in 1..n |->
     [index |-> i,
      speaker |-> IF i = bad THEN "Alex" ELSE IF i % 2 = 1 THEN "Nishi" ELSE "Shyam",
      text |-> TextAt(i), section |-> "explanation"]]

InitRetry ==
  /\ raw = <<>> /\ gsResult = NotCalled
  /\ RetryIdle
  /\ StitchIdle
  /\ PodcastIdle

RetryCallDirect ==
  /\ \E maxR \in 0..MaxRetriesArg, n \in 0..MaxTtsLines :
       \E bad \in 0..n : RetryCall("s1", TtsBatch(n, bad), maxR)
  /\ UNCHANGED <<vvars, svars, ovars>>

NextRetry == RetryCallDirect \/ RetrySteps

SpecRetry == InitRetry /\ [][NextRetry]_vars

(***************************************************************************)
(* SpecValidator: generateScript on every batch of the family.             *)
(***************************************************************************)
InitValidator ==
  /\ IsSectionRich(raw) \/ IsSpeakerRich(raw) \/ IsShort(raw) \/ IsDurationRich(raw)
  /\ gsResult = NotCalled
  /\ RetryIdle
  /\ StitchIdle
  /\ PodcastIdle

\* await generateScript(article), the model's answer being `raw`
GenerateScriptCall ==
  /\ gsResult = NotCalled
  /\ gsResult' = generateScript("t1", raw)
  /\ UNCHANGED <<raw, rvars, svars, ovars>>

NextValidator == GenerateScriptCall

SpecValidator == InitValidator /\ [][NextValidator]_vars

(***************************************************************************)
(* SpecStitch: calls of stitchAudioSegments (audioStitcher.ts 82-165) for  *)
(* the script ids of RunIds, each advancing from one await to the next, so *)
(* that the steps of two calls interleave as they do on the event loop.    *)
(***************************************************************************)
\* path.join(tempDir, 'concat_list.txt')
ConcatListPath == <<"temp", "concat_list.txt">>

\* path.join(audioDir, `${scriptId}.mp3`)
OutputPath(scriptId) == <<"audio", scriptId>>

\* the segments generateAudioSegments returns for the lines with these indexes
SegmentsOf(scriptId, indexes) ==
  [i \in 1..Len(indexes) |->
     [lineIndex |-> indexes[i],
      speaker |-> IF indexes[i] % 2 = 1 THEN "Nishi" ELSE "Shyam",
      filePath |-> SegmentPath(scriptId, [index |-> indexes[i]])]]

\* the sequences without repetition over a set
SeqsOver(S) ==
  UNION {{q \in [1..n -> S] : \A i, j \in 1..n : q[i] = q[j] => i = j} : n \in 0..Cardinality(S)}

\* the segment lists the calls are given: any order of any lines for the first
\* id, two fixed lists for the other
StitchInputs(r) ==
  IF r = "s1" THEN {SegmentsOf(r, q) : q \in SeqsOver(1..MaxStitchSegs)}
  ELSE {SegmentsOf(r, <<1>>), SegmentsOf(r, <<2, 1>>)}

RecordWrite(path, r) ==
  IF path \in DOMAIN pathWriters
  THEN [pathWriters EXCEPT ![path] = @ \cup {r}]
  ELSE (path :> {r}) @@ pathWriters

\* the call for r awaited op, which resolved (ok) or rejected
Traced(r, op, ok) == [stitchTrace EXCEPT ![r] = Append(@, <<op, ok>>)]

\* the call for r throws err
StitchRaise(r, err) ==
  /\ spc' = [spc EXCEPT ![r] = "thrown"]
  /\ stitchOut' = [stitchOut EXCEPT ![r] = [NoStitch EXCEPT !.status = "err", !.error = err]]

\* stitchAudioSegments(r, segs) is called: the length check, then
\* checkFFmpegAvailable() is awaited
StitchBegin(r) ==
  /\ spc[r] = "idle"
  /\ \E segs \in StitchInputs(r) :
       /\ stitchSegs' = [stitchSegs EXCEPT ![r] = segs]
       /\ IF NoSegments(segs)
          THEN StitchRaise(r, Msg("NoAudioSegments", "", 0))
          ELSE spc' = [spc EXCEPT ![r] = "ffmpeg_version"] /\ UNCHANGED stitchOut
  /\ UNCHANGED <<listWritten, listRead, toolExit, pathWriters, stitchTrace>>
  /\ UNCHANGED <<stitchResult, audioFiles, concatFile, vvars, rvars, ovars>>

\* await checkFFmpegAvailable() resolves, then ensureAudioDirectory() is awaited
checkFFmpegAvailable(r) ==
  /\ spc[r] = "ffmpeg_version"
  /\ \E available \in BOOLEAN :
       IF FFmpegMissing(available)
       THEN /\ StitchRaise(r, Msg("FFmpegNotAvailable", "", 0))
            /\ stitchTrace' = Traced(r, "ffmpeg_version", available)
       ELSE /\ spc' = [spc EXCEPT ![r] = "mkdir_audio"] /\ UNCHANGED stitchOut
            /\ stitchTrace' = Traced(r, "ffmpeg_version", available)
  /\ UNCHANGED <<stitchSegs, listWritten, listRead, toolExit, pathWriters>>
  /\ UNCHANGED <<stitchResult, audioFiles, concatFile, vvars, rvars, ovars>>

\* await ensureAudioDirectory() resolves or rejects, then mkdir(tempDir) is awaited
ensureAudioDirectory(r) ==
  /\ spc[r] = "mkdir_audio"
  /\ \E ok \in BOOLEAN :
       IF ok
       THEN spc' = [spc EXCEPT ![r] = "mkdir_temp"] /\ UNCHANGED stitchOut
       ELSE StitchRaise(r, Msg("AudioDirFailed", "", 0))
  /\ stitchTrace' = Traced(r, "mkdir_audio", spc'[r] # "thrown")
  /\ UNCHANGED <<stitchSegs, listWritten, listRead, toolExit, pathWriters>>
  /\ UNCHANGED <<stitchResult, audioFiles, concatFile, vvars, rvars, ovars>>

\* await fs.mkdir(tempDir) resolves or rejects (outside the try); then
\* createConcatFile sorts the segments and awaits fs.writeFile
MkdirTemp(r) ==
  /\ spc[r] = "mkdir_temp"
  /\ \E ok \in BOOLEAN :
       IF ok
       THEN spc' = [spc EXCEPT ![r] = "write_list"] /\ UNCHANGED stitchOut
       ELSE StitchRaise(r, Msg("FsError", "mkdir", 0))
  /\ stitchTrace' = Traced(r, "mkdir_temp", spc'[r] # "thrown")
  /\ UNCHANGED <<stitchSegs, listWritten, listRead, toolExit, pathWriters>>
  /\ UNCHANGED <<stitchResult, audioFiles, concatFile, vvars, rvars, ovars>>

\* await fs.writeFile(concatFilePath, fileList) resolves or rejects; the
\* ffmpeg command is built and started
createConcatFile(r) ==
  /\ spc[r] = "write_list"
  /\ \E ok \in BOOLEAN :
       IF ok
       THEN /\ concatFile' = <<ConcatEntries(stitchSegs[r])>>
            /\ listWritten' = [listWritten EXCEPT ![r] = <<ConcatEntries(stitchSegs[r])>>]
            /\ pathWriters' = RecordWrite(ConcatListPath, r)
            /\ spc' = [spc EXCEPT ![r] = "ffmpeg"]
            /\ UNCHANGED stitchOut
       ELSE /\ StitchRaise(r, StitchFailure(Msg("FsError", "writeFile", 0)))
            /\ UNCHANGED <<concatFile, listWritten, pathWriters>>
  /\ stitchTrace' = Traced(r, "write_list", spc'[r] # "thrown")
  /\ UNCHANGED <<stitchSegs, listRead, toolExit>>
  /\ UNCHANGED <<stitchResult, audioFiles, vvars, rvars, ovars>>

\* how a run of ffmpeg can end: exit code 0 with or without an error marker on
\* stderr, or a non-zero exit code
ToolExits == {"ok", "stderr", "exit"}

\* await execAsync(ffmpegCommand): the tool reads the list that is at
\* concatFilePath now, writes outputPath and exits; a missing list makes it
\* exit with a non-zero code
ExecFFmpeg(r) ==
  /\ spc[r] = "ffmpeg"
  /\ \E exit \in ToolExits, wrote \in BOOLEAN :
       /\ concatFile = <<>> => exit = "exit" /\ ~wrote
       /\ exit # "exit" => wrote
       /\ toolExit' = [toolExit EXCEPT ![r] = exit]
       /\ listRead' = [listRead EXCEPT ![r] = concatFile]
       /\ audioFiles' = IF wrote THEN audioFiles \cup {r} ELSE audioFiles
       /\ pathWriters' = IF wrote THEN RecordWrite(OutputPath(r), r) ELSE pathWriters
       /\ IF exit = "exit"
          THEN StitchRaise(r, StitchFailure(Msg("CommandFailed", "ffmpeg", 1)))
          ELSE IF StderrHasError(exit)
          THEN StitchRaise(r, StitchFailure(Msg("FFmpegError", "", 0)))
          ELSE spc' = [spc EXCEPT ![r] = "ffprobe"] /\ UNCHANGED stitchOut
  /\ stitchTrace' = Traced(r, "ffmpeg", toolExit'[r] # "exit")
  /\ UNCHANGED <<stitchSegs, listWritten>>
  /\ UNCHANGED <<stitchResult, concatFile, vvars, rvars, ovars>>

\* await getAudioDuration(outputPath): the duration ffprobe prints, or 0 when
\* ffprobe fails; then fs.stat is awaited
getAudioDuration(r) ==
  /\ spc[r] = "ffprobe"
  /\ \E probeOk \in BOOLEAN :
       /\ stitchOut' = [stitchOut EXCEPT ![r].durationSeconds =
                          IF probeOk THEN RoundTenths(GoodEnv.probe) ELSE 0]
       /\ stitchTrace' = Traced(r, "ffprobe", probeOk)
  /\ spc' = [spc EXCEPT ![r] = "stat"]
  /\ UNCHANGED <<stitchSegs, listWritten, listRead, toolExit, pathWriters>>
  /\ UNCHANGED <<stitchResult, audioFiles, concatFile, vvars, rvars, ovars>>

\* await fs.stat(outputPath) resolves or rejects; then fs.unlink is awaited
StatOutput(r) ==
  /\ spc[r] = "stat"
  /\ \E ok \in BOOLEAN :
       IF ok
       THEN /\ stitchOut' = [stitchOut EXCEPT ![r].fileSizeBytes = GoodEnv.size]
            /\ spc' = [spc EXCEPT ![r] = "unlink"]
       ELSE StitchRaise(r, StitchFailure(Msg("FsError", "stat", 0)))
  /\ stitchTrace' = Traced(r, "stat", spc'[r] # "thrown")
  /\ UNCHANGED <<stitchSegs, listWritten, listRead, toolExit, pathWriters>>
  /\ UNCHANGED <<stitchResult, audioFiles, concatFile, vvars, rvars, ovars>>

\* a call that fails when the list cannot be removed
UnlinkConcatFile_Strict(r) ==
  /\ spc[r] = "unlink"
  /\ \E ok \in BOOLEAN :
       /\ concatFile' = IF ok /\ concatFile # <<>> THEN <<>> ELSE concatFile
       /\ stitchTrace' = Traced(r, "unlink", ok /\ concatFile # <<>>)
       /\ IF ok /\ concatFile # <<>>
          THEN /\ stitchOut' = [stitchOut EXCEPT ![r].status = "ok", ![r].filePath = r]
               /\ spc' = [spc EXCEPT ![r] = "returned"]
          ELSE StitchRaise(r, StitchFailure(Msg("FsError", "unlink", 0)))
  /\ UNCHANGED <<stitchSegs, listWritten, listRead, toolExit, pathWriters>>
  /\ UNCHANGED <<stitchResult, audioFiles, vvars, rvars, ovars>>

\* await fs.unlink(concatFilePath) resolves, or rejects and is only warned
\* about; the result is returned
UnlinkConcatFile(r) ==
  /\ spc[r] = "unlink"
  /\ \E ok \in BOOLEAN :
       /\ concatFile' = IF ok /\ concatFile # <<>> THEN <<>> ELSE concatFile
       /\ stitchTrace' = Traced(r, "unlink", ok /\ concatFile # <<>>)
  /\ stitchOut' = [stitchOut EXCEPT ![r].status = "ok", ![r].filePath = r]
  /\ spc' = [spc EXCEPT ![r] = "returned"]
  /\ UNCHANGED <<stitchSegs, listWritten, listRead, toolExit, pathWriters>>
  /\ UNCHANGED <<stitchResult, audioFiles, vvars, rvars, ovars>>

InitStitch ==
  /\ raw = <<>> /\ gsResult = NotCalled
  /\ RetryIdle
  /\ StitchIdle
  /\ PodcastIdle

NextStitch ==
  \E r \in RunIds :
    \/ StitchBegin(r) \/ checkFFmpegAvailable(r) \/ ensureAudioDirectory(r)
    \/ MkdirTemp(r) \/ createConcatFile(r) \/ ExecFFmpeg(r)
    \/ getAudioDuration(r) \/ StatOutput(r) \/ UnlinkConcatFile(r)

SpecStitch == InitStitch /\ [][NextStitch]_vars

(***************************************************************************)
(* Frontend: the hook usePodcastGeneration (hooks/usePodcastGeneration.ts  *)
(* 27-123) and streamPodcastGeneration (services/api.ts 134-205).  Each    *)
(* call of streamPodcastGeneration is a stream with its own promise chain; *)
(* what the network delivers is chosen freely.                             *)
(***************************************************************************)
\* the events a chunk may hold: the three the reader knows, one of another
\* type, and one whose data is not JSON
StreamEventTypes == {"progress", "complete", "error", "other", "garbled"}

\* abortController.abort() through cleanupRef.current(): the pending fetch or
\* read of that stream rejects with an AbortError, which the catch ignores
AbortCurrent(status) ==
  IF cleanupRef # 0 /\ status[cleanupRef] \in {"pending", "reading"}
  THEN [status EXCEPT ![cleanupRef] = "aborted"]
  ELSE status

\* the onProgress callback of the hook
HookOnProgress ==
  /\ hookProgress' = hookProgress + 1
  /\ UNCHANGED <<hookState, hookResult, hookError, cleanupRef>>

\* the onComplete callback of the hook
HookOnComplete(i) ==
  /\ hookResult' = i /\ hookState' = "success" /\ cleanupRef' = 0
  /\ UNCHANGED <<hookError, hookProgress>>

\* the onError callback of the hook
HookOnError(message) ==
  /\ hookError' = message /\ hookState' = "error" /\ cleanupRef' = 0
  /\ UNCHANGED <<hookResult, hookProgress>>

\* generate(input, type): abort the stream cleanupRef holds, set loading, open
\* a new stream and keep its cleanup function
HookGenerate ==
  /\ generated < MaxStreams
  /\ generated' = generated + 1
  /\ streamStatus' = [AbortCurrent(streamStatus) EXCEPT ![generated + 1] = "pending"]
  /\ cleanupRef' = generated + 1
  /\ hookState' = "loading" /\ hookError' = "" /\ hookResult' = 0 /\ hookProgress' = 0
  /\ UNCHANGED streamEvents
  /\ UNCHANGED <<vvars, rvars, svars, pc, stageNo, onProgress, stages, notes, calls,
                 thrown, delegateError, savedScripts, savedMetadata, podcast,
                 endpoint, request, response>>

\* reset(): abort the stream cleanupRef holds and go back to idle
HookReset ==
  /\ streamStatus' = AbortCurrent(streamStatus)
  /\ cleanupRef' = 0
  /\ hookState' = "idle" /\ hookError' = "" /\ hookResult' = 0 /\ hookProgress' = 0
  /\ UNCHANGED <<generated, streamEvents>>
  /\ UNCHANGED <<vvars, rvars, svars, pc, stageNo, onProgress, stages, notes, calls,
                 thrown, delegateError, savedScripts, savedMetadata, podcast,
                 endpoint, request, response>>

\* fetch rejects (network error): the catch calls onError
FetchRejects(i) ==
  /\ streamStatus[i] = "pending"
  /\ streamStatus' = [streamStatus EXCEPT ![i] = "failed"]
  /\ HookOnError("network")
  /\ UNCHANGED <<generated, streamEvents>>
  /\ UNCHANGED <<vvars, rvars, svars, pc, stageNo, onProgress, stages, notes, calls,
                 thrown, delegateError, savedScripts, savedMetadata, podcast,
                 endpoint, request, response>>

\* fetch resolves with a response that is not ok, or without a body: the then
\* block throws and the catch calls onError
ResponseNotOk(i) ==
  /\ streamStatus[i] = "pending"
  /\ streamStatus' = [streamStatus EXCEPT ![i] = "failed"]
  /\ HookOnError("api")
  /\ UNCHANGED <<generated, streamEvents>>
  /\ UNCHANGED <<vvars, rvars, svars, pc, stageNo, onProgress, stages, notes, calls,
                 thrown, delegateError, savedScripts, savedMetadata, podcast,
                 endpoint, request, response>>

\* fetch resolves with an event stream: the read loop starts
ResponseOk(i) ==
  /\ streamStatus[i] = "pending"
  /\ streamStatus' = [streamStatus EXCEPT ![i] = "reading"]
  /\ UNCHANGED <<hookState, hookResult, hookError, hookProgress, cleanupRef,
                 generated, streamEvents>>
  /\ UNCHANGED <<vvars, rvars, svars, pc, stageNo, onProgress, stages, notes, calls,
                 thrown, delegateError, savedScripts, savedMetadata, podcast,
                 endpoint, request, response>>

\* if (done) break: the loop and the then block end, no callback is called
WhenStreamDone(i) ==
  UNCHANGED <<hookState, hookResult, hookError, hookProgress, cleanupRef>>

\* await reader.read() yields a chunk holding one event
ReadEvent(i) ==
  /\ streamStatus[i] = "reading" /\ streamEvents[i] < MaxEvents
  /\ streamEvents' = [streamEvents EXCEPT ![i] = @ + 1]
  /\ \E eventType \in StreamEventTypes :
       CASE eventType = "progress" -> HookOnProgress /\ UNCHANGED streamStatus
         [] eventType = "complete" -> HookOnComplete(i) /\ UNCHANGED streamStatus
         [] eventType = "error" -> HookOnError("api") /\ UNCHANGED streamStatus
         [] eventType = "other" ->
              UNCHANGED <<hookState, hookResult, hookError, hookProgress, cleanupRef,
                          streamStatus>>
         [] eventType = "garbled" ->
              /\ HookOnError("syntax")
              /\ streamStatus' = [streamStatus EXCEPT ![i] = "failed"]
  /\ UNCHANGED generated
  /\ UNCHANGED <<vvars, rvars, svars, pc, stageNo, onProgress, stages, notes, calls,
                 thrown, delegateError, savedScripts, savedMetadata, podcast,
                 endpoint, request, response>>

\* await reader.read() yields done
ReadDone(i) ==
  /\ streamStatus[i] = "reading"
  /\ streamStatus' = [streamStatus EXCEPT ![i] = "closed"]
  /\ WhenStreamDone(i)
  /\ UNCHANGED <<generated, streamEvents>>
  /\ UNCHANGED <<vvars, rvars, svars, pc, stageNo, onProgress, stages, notes, calls,
                 thrown, delegateError, savedScripts, savedMetadata, podcast,
                 endpoint, request, response>>

\* await reader.read() rejects (connection lost): the catch calls onError
ReadRejects(i) ==
  /\ streamStatus[i] = "reading"
  /\ streamStatus' = [streamStatus EXCEPT ![i] = "failed"]
  /\ HookOnError("network")
  /\ UNCHANGED <<generated, streamEvents>>
  /\ UNCHANGED <<vvars, rvars, svars, pc, stageNo, onProgress, stages, notes, calls,
                 thrown, delegateError, savedScripts, savedMetadata, podcast,
                 endpoint, request, response>>

InitHook ==
  /\ raw = <<>> /\ gsResult = NotCalled
  /\ RetryIdle
  /\ StitchIdle
  /\ PodcastIdle

NextHook ==
  \/ HookGenerate \/ HookReset
  \/ \E i \in StreamIds :
       \/ FetchRejects(i) \/ ResponseNotOk(i) \/ ResponseOk(i)
       \/ ReadEvent(i) \/ ReadDone(i) \/ ReadRejects(i)

SpecHook == InitHook /\ [][NextHook]_vars

(***************************************************************************)
(* Properties of the validator, stated on the batch itself.                *)
(***************************************************************************)
Called == gsResult # NotCalled
Checked == MapLines(raw)

TagsOf(lines) == {lines[i].section : i \in 1..Len(lines)}
SpeakersOf(lines) == {lines[i].speaker : i \in 1..Len(lines)}
Rank(line) == IndexOf(sectionOrder, line.section)
HasRun(lines, r) ==
  \E i \in 1..(Len(lines) - r + 1) : \A j \in i..(i + r - 1) : lines[j].speaker = lines[i].speaker

\* the five rules, each as a property of the whole batch
TooShort(lines) == Len(lines) < MIN_LINES
Incomplete(lines) == \E k \in 1..Len(requiredSections) : requiredSections[k] \notin TagsOf(lines)
ForeignSpeaker(lines) == \E i \in 1..Len(lines) : lines[i].speaker \notin SPEAKERS
Disordered(lines) == \E i \in 2..Len(lines) : Rank(lines[i]) < Rank(lines[i - 1])
LongRun(lines) == HasRun(lines, MAX_CONSECUTIVE + 1)

FirstMissingTag(lines) ==
  requiredSections[CHOOSE k \in 1..Len(requiredSections) :
     /\ requiredSections[k] \notin TagsOf(lines)
     /\ \A j \in 1..(k - 1) : requiredSections[j] \in TagsOf(lines)]
FirstForeignSpeaker(lines) ==
  lines[CHOOSE i \in 1..Len(lines) :
     /\ lines[i].speaker \notin SPEAKERS
     /\ \A j \in 1..(i - 1) : lines[j].speaker \in SPEAKERS].speaker

\* C5: the violation reported is that of the earliest violated rule in the
\* order length, completeness (first missing tag in canonical order), speaker
\* (first invalid speaker met), monotonicity, run limit; a later rule is never
\* reported while an earlier one is violated.
C5_EarliestRuleReported ==
  Called =>
    LET L == Checked
        e == gsResult.error
    IN /\ TooShort(L) => e.kind = "ScriptTooShort"
       /\ (~TooShort(L) /\ Incomplete(L)) =>
             (e.kind = "MissingSection" /\ e.tag = FirstMissingTag(L))
       /\ (~TooShort(L) /\ ~Incomplete(L) /\ ForeignSpeaker(L)) =>
             (e.kind = "InvalidSpeaker" /\ e.tag = FirstForeignSpeaker(L))
       /\ (~TooShort(L) /\ ~Incomplete(L) /\ ~ForeignSpeaker(L) /\ Disordered(L)) =>
             e.kind = "SectionsOutOfOrder"
       /\ (~TooShort(L) /\ ~Incomplete(L) /\ ~ForeignSpeaker(L) /\ ~Disordered(L)
             /\ LongRun(L)) => e.kind = "TooManyConsecutive"

\* a batch that misses two tags, has two foreign speakers and is out of order
C5_Witness ==
  /\ Called
  /\ ~TooShort(Checked) /\ Disordered(Checked)
  /\ Cardinality(SeqRange(requiredSections) \ TagsOf(Checked)) = 2
  /\ ForeignSpeaker(Checked)
  /\ gsResult.error.kind = "MissingSection"

\* a batch with two different foreign speakers and a long run, all tags present
C5_WitnessSpeakers ==
  /\ Called
  /\ ~TooShort(Checked) /\ ~Incomplete(Checked) /\ LongRun(Checked)
  /\ InvalidSpeakers \subseteq SpeakersOf(Checked)
  /\ gsResult.error.kind = "InvalidSpeaker"

\* C6: a returned Script has lines by exactly two distinct speakers.
C6_ExactlyTwoSpeakers ==
  gsResult.ok => Cardinality(SpeakersOf(gsResult.script.lines)) = 2

C6_Witness == gsResult.ok /\ SpeakersOf(gsResult.script.lines) = SPEAKERS

\* a one-speaker batch that breaks none of the first four rules was submitted
C6_WitnessOneSpeaker ==
  /\ Called /\ Cardinality(SpeakersOf(Checked)) = 1
  /\ ~TooShort(Checked) /\ ~Incomplete(Checked) /\ ~ForeignSpeaker(Checked)
  /\ ~Disordered(Checked)

FirstPos(lines, tag) ==
  CHOOSE i \in 1..Len(lines) :
     lines[i].section = tag /\ \A j \in 1..(i - 1) : lines[j].section # tag

\* C7: in a returned Script all five tags occur, their first occurrences are
\* in canonical order, and no line of an earlier section follows a line of a
\* later one.
C7_SectionsCompleteAndOrdered ==
  gsResult.ok =>
    LET L == gsResult.script.lines
    IN /\ \A k \in 1..Len(sectionOrder) : sectionOrder[k] \in TagsOf(L)
       /\ \A k \in 1..(Len(sectionOrder) - 1) :
             FirstPos(L, sectionOrder[k]) <= FirstPos(L, sectionOrder[k + 1])
       /\ \A i, j \in 1..Len(L) : i < j => Rank(L[i]) <= Rank(L[j])

\* an accepted Script whose sections span several lines
C7_Witness ==
  /\ gsResult.ok
  /\ \E i \in 2..Len(gsResult.script.lines) :
        gsResult.script.lines[i].section = gsResult.script.lines[i - 1].section

C8_WitnessRejected ==
  /\ Called /\ gsResult.error.kind = "TooManyConsecutive"
  /\ gsResult.error.num > MAX_CONSECUTIVE + 1

(***************************************************************************)
(* Properties of the retry wrapper.                                        *)
(***************************************************************************)
\* C9: when every attempt fails, the wrapper called with maxRetries = N makes
\* exactly N + 1 attempts and then throws an error whose text carries N + 1
\* (one attempt for N = 0).
C9_ExhaustedAfterNPlus1 ==
  /\ attemptsStarted <= maxRetries + 1
  /\ ttsResult.status = "err" =>
       /\ attemptsStarted = maxRetries + 1
       /\ attemptsFailed = maxRetries + 1
       /\ ttsResult.error.kind = "TtsFailedAfter"
       /\ ttsResult.error.num = maxRetries + 1
  /\ (rpc # "idle" /\ attemptsFailed = maxRetries + 1) => ttsResult.status = "err"

\* three failed attempts with maxRetries = 2
C9_Witness ==
  /\ ttsResult.status = "err" /\ maxRetries = 2 /\ attemptsStarted = 3
  /\ Len(ttsLines) >= 2

\* one failed attempt with maxRetries = 0
C9_WitnessZero == ttsResult.status = "err" /\ maxRetries = 0 /\ attemptsStarted = 1

StatusOf(k) == stages[k].status
StageNos == 1..Len(StageNames)
IsPrefix(s, t) == Len(s) <= Len(t) /\ \A i \in 1..Len(s) : s[i] = t[i]

\* what holds of the stages and of the delegates invoked, in every state
C1_StateOrder ==
  /\ IsPrefix(calls, StageNames)
  /\ \A k \in 1..Len(calls) : \A j \in 1..(k - 1) : StatusOf(j) = "completed"
  /\ \A k \in StageNos : StatusOf(k) # "pending" => k <= Len(calls)
  /\ Cardinality({k \in StageNos : StatusOf(k) = "in_progress"}) <= 1
  /\ pc = "returned" => calls = StageNames

\* C1: the four stages run strictly in the order fetch, script, synthesis,
\* stitch: a delegate is invoked only after the stage before it is marked
\* completed, none is skipped, no two are in progress together, and a
\* completed stage is never entered again.
C1_StrictStageOrder ==
  /\ []C1_StateOrder
  /\ [][\A k \in StageNos : StatusOf(k) = "completed" => stages'[k].status = "completed"]_vars

\* a run that went through all four stages
C1_Witness == pc = "returned" /\ Len(calls) = 4 /\ attemptsFailed > 0

AllCompleted == \A k \in StageNos : StatusOf(k) = "completed"
FailedStages == {k \in StageNos : StatusOf(k) = "failed"}

\* C2: generate ends either returning with all four stages completed or
\* raising with exactly one stage failed; it never raises while no stage is
\* failed, and never raises with all four completed.
C2_TwoTerminalStates ==
  /\ pc = "returned" => AllCompleted
  /\ pc = "raised" => (Cardinality(FailedStages) = 1 /\ ~AllCompleted)

\* C3: when the delegate of stage i throws, stage i ends failed with the
\* error's text, a failed notification for it is the last one emitted, the
\* later stages stay pending and their delegates are not invoked, the earlier
\* stages stay completed, and generate throws that very error.
C3_DelegateFailure ==
  delegateError.stage # 0 =>
    LET i == delegateError.stage
    IN /\ pc = "raised"
       /\ StatusOf(i) = "failed"
       /\ stages[i].error = delegateError.error
       /\ onProgress => (Len(notes) > 0 /\ notes[Len(notes)] =
                           [name |-> StageNames[i], status |-> "failed"])
       /\ \A j \in StageNos : j > i => StatusOf(j) = "pending"
       /\ Len(calls) = i
       /\ \A j \in StageNos : j < i => StatusOf(j) = "completed"
       /\ thrown = delegateError.error

\* the synthesis delegate threw after its retries, with a callback supplied
C3_Witness ==
  /\ delegateError.stage = 3 /\ onProgress
  /\ thrown.kind = "TtsFailedAfter"

\* the notifications a stage of the given status has produced
NotesOfStage(k) ==
  CASE StatusOf(k) = "pending" -> <<>>
    [] StatusOf(k) = "in_progress" -> <<[name |-> StageNames[k], status |-> "in_progress"]>>
    [] OTHER -> <<[name |-> StageNames[k], status |-> "in_progress"],
                  [name |-> StageNames[k], status |-> StatusOf(k)]>>

ExpectedNotes ==
  NotesOfStage(1) \o NotesOfStage(2) \o NotesOfStage(3) \o NotesOfStage(4)

\* C4: with a callback, every stage started produces one notification on
\* entering in progress and then one on leaving it, those of stage i before
\* those of stage i + 1; a stage never started produces none; a successful
\* run produces exactly eight, in pipeline order.
C4_Notifications ==
  /\ onProgress => notes = ExpectedNotes
  /\ ~onProgress => notes = <<>>
  /\ (onProgress /\ pc = "returned") =>
       /\ Len(notes) = 2 * Len(StageNames)
       /\ \A k \in StageNos :
            /\ notes[2 * k - 1] = [name |-> StageNames[k], status |-> "in_progress"]
            /\ notes[2 * k] = [name |-> StageNames[k], status |-> "completed"]

\* a successful run with a callback
C4_Witness == onProgress /\ pc = "returned" /\ Len(notes) = 8

\* a run with a callback that failed in the stitch stage
C4_WitnessFailed ==
  /\ onProgress /\ pc = "raised" /\ StatusOf(4) = "failed" /\ Len(notes) = 8

(***************************************************************************)
(* Properties of one call of generateAudioSegments.                        *)
(***************************************************************************)
\* the message of the error interpolates the index of the line
ErrorNamesLine(err, index) == err.kind = "FailedToSynthesizeLine" /\ err.num = index

\* the segments returned are one per line, in the order of the lines
OnePerLine(segs, lines) ==
  /\ Len(segs) = Len(lines)
  /\ \A i \in 1..Len(lines) :
       /\ segs[i].lineIndex = lines[i].index
       /\ segs[i].speaker = lines[i].speaker

\* a step in which a call failed at one of its lines
LineFailureStep ==
  /\ attemptsFailed' = attemptsFailed + 1
  /\ lastError'.kind # "SegmentsDirFailed"

\* C11: one call of generateAudioSegments returns one segment per line, in
\* order, with the line's index and speaker, or throws an error that names the
\* index of the line that failed, whatever made the line fail (an unknown
\* speaker included); it never returns a partial list.
C11_AllOrNamedLine ==
  /\ [](rpc = "returned" => /\ ttsResult.status = "ok"
                            /\ OnePerLine(ttsResult.segments, ttsLines))
  /\ [][LineFailureStep =>
          /\ linePos' \in 1..Len(ttsLines)
          /\ ErrorNamesLine(lastError', ttsLines[linePos'].index)]_vars

(***************************************************************************)
(* Properties of the backoff of generateAudioSegmentsWithRetry.            *)
(***************************************************************************)
\* 1000, 2000, 4000, ... for a = 0, 1, 2, ...
RECURSIVE Doubled(_)
Doubled(a) == IF a = 0 THEN 1000 ELSE 2 * Doubled(a - 1)

RECURSIVE SumSeq(_)
SumSeq(s) == IF s = <<>> THEN 0 ELSE Head(s) + SumSeq(Tail(s))

Min(a, b) == IF a < b THEN a ELSE b

\* C12: after failed attempt a (from 0) with attempts remaining the wrapper
\* waits 2^a * 1000 ms; it does not wait after the last allowed attempt nor
\* after a success; two failures and a success with maxRetries = 2 wait
\* 1000 + 2000 ms in all.
C12_ExponentialBackoff ==
  /\ Len(delays) = Min(attemptsFailed, maxRetries)
  /\ \A a \in 0..(Len(delays) - 1) : delays[a + 1] = Doubled(a)
  /\ rpc = "sleep" => Len(delays) = attemptsFailed /\ attempt = attemptsFailed - 1
  /\ rpc = "thrown" => Len(delays) = maxRetries /\ attemptsFailed = maxRetries + 1
  /\ (rpc = "returned" /\ maxRetries = 2 /\ attemptsFailed = 2) => SumSeq(delays) = 3000

\* two failures, then a success, with the default of two retries
C12_Witness ==
  /\ rpc = "returned" /\ maxRetries = 2 /\ attemptsFailed = 2
  /\ delays = <<1000, 2000>>

\* all attempts failed with three retries allowed: three waits, none after the last
C12_WitnessExhausted ==
  /\ rpc = "thrown" /\ maxRetries = 3 /\ delays = <<1000, 2000, 4000>>

(***************************************************************************)
(* Properties of stitchAudioSegments.                                      *)
(***************************************************************************)
\* the lists that hold the same segments as segs in some order
PermutationsOf(segs) ==
  {[i \in 1..Len(segs) |-> segs[p[i]]] : p \in Permutations(1..Len(segs))}

\* the line index a path of the segments directory belongs to
IndexOfPath(path) == path[2]

Ascending(entries) ==
  \A i, j \in 1..Len(entries) : i < j => IndexOfPath(entries[i]) < IndexOfPath(entries[j])

\* C13: whatever the order in which a set of segments is passed, the list
\* written is the same: the paths of the segments by ascending lineIndex
\* (segments given as 3, 1, 2 are written as 1, 2, 3).
C13_ListIndependentOfInputOrder ==
  \A r \in RunIds :
    listWritten[r] # <<>> =>
      LET written == listWritten[r][1]
      IN /\ \A q \in PermutationsOf(stitchSegs[r]) : ConcatEntries(q) = written
         /\ Ascending(written)
         /\ Len(written) = Len(stitchSegs[r])
         /\ SeqRange(written) = {stitchSegs[r][i].filePath : i \in 1..Len(stitchSegs[r])}

\* segments 3, 1, 2 were passed and the list 1, 2, 3 was written
C13_Witness ==
  /\ Len(stitchSegs["s1"]) = 3
  /\ [i \in 1..3 |-> stitchSegs["s1"][i].lineIndex] = <<3, 1, 2>>
  /\ listWritten["s1"] = << <<SegmentPath("s1", [index |-> 1]),
                              SegmentPath("s1", [index |-> 2]),
                              SegmentPath("s1", [index |-> 3])>> >>

\* both calls are between their first and their last step
BothInFlight == \A r \in RunIds : spc[r] \notin {"idle", "returned", "thrown"}

\* C14: while two runs with different script ids are in the stitcher
\* together, no path has been written by both, and the list ffmpeg read for a
\* run holds that run's own segments and nothing else.
C14_RunsDoNotShareFiles ==
  BothInFlight =>
    /\ \A path \in DOMAIN pathWriters : Cardinality(pathWriters[path]) <= 1
    /\ \A r \in RunIds :
         listRead[r] # <<>> => listRead[r][1] = ConcatEntries(stitchSegs[r])

\* C15: when ffmpeg exits with a non-zero code, or with 0 and an error marker
\* on stderr, stitchAudioSegments throws and hands no path, duration or size
\* to its caller.
C15_ToolFailureRejects ==
  \A r \in RunIds :
    toolExit[r] \in {"exit", "stderr"} =>
      /\ spc[r] = "thrown"
      /\ stitchOut[r].status = "err"
      /\ stitchOut[r].error.kind = "AudioStitchingFailed"
      /\ stitchOut[r].filePath = ""
      /\ stitchOut[r].durationSeconds = 0
      /\ stitchOut[r].fileSizeBytes = 0

\* the tool exited with 0 and wrote its output, with an error marker on stderr
C15_Witness ==
  /\ toolExit["s1"] = "stderr" /\ "s1" \in audioFiles /\ spc["s1"] = "thrown"

\* the tool exited with a non-zero code
C15_WitnessExit ==
  /\ toolExit["s2"] = "exit" /\ listRead["s2"] # <<>> /\ spc["s2"] = "thrown"

(***************************************************************************)
(* Properties of the artifacts of a run.                                   *)
(***************************************************************************)
\* the clips on disk for a script id that a failed call of generateAudioSegments wrote
FailedAttemptClips(id) ==
  {path \in DOMAIN segFiles :
     /\ path[1] = id
     /\ (ttsResult.status # "ok" \/ segFiles[path] < attemptsStarted)}

\* C16: after a run that failed, whatever the stage, no audio is on disk for
\* its script id: no stitched output (even if ffmpeg wrote one before the
\* failure was detected) and no clip left by a failed synthesis attempt.
C16_FailedRunLeavesNoAudio ==
  (pc = "raised" /\ gsResult.ok) =>
    /\ gsResult.script.id \notin audioFiles
    /\ FailedAttemptClips(gsResult.script.id) = {}

\* C17: when generatePodcast returns, the Script and the generation metadata
\* of the run are on disk, each under the id of the Podcast returned.
C17_ArtifactsSavedBeforeReturn ==
  pc = "returned" =>
    /\ podcast.id = gsResult.script.id
    /\ podcast.id \in savedScripts
    /\ \E m \in savedMetadata : m.id = podcast.id

\* a run that returned its Podcast
C17_Witness ==
  /\ pc = "returned" /\ podcast.id = "t1"
  /\ savedScripts = {"t1"} /\ Cardinality(savedMetadata) = 1

(***************************************************************************)
(* Properties of the length rule and of the estimated duration.            *)
(***************************************************************************)
\* C18: a batch of fewer than 10 lines is rejected as too short, whatever
\* other rules it breaks; a batch of exactly 10 lines is never rejected for
\* its length.
C18_TooShortBoundary ==
  Called =>
    /\ Len(raw) < 10 => (~gsResult.ok /\ gsResult.error.kind = "ScriptTooShort")
    /\ Len(raw) = 10 => gsResult.error.kind # "ScriptTooShort"

\* nine lines that also miss sections and carry a foreign speaker
C18_Witness ==
  /\ Called /\ Len(raw) = 9 /\ gsResult.error.kind = "ScriptTooShort"
  /\ Incomplete(Checked) /\ ForeignSpeaker(Checked)

\* ten lines, accepted
C18_WitnessTen == Called /\ Len(raw) = 10 /\ gsResult.ok

\* ten lines, rejected for another rule
C18_WitnessTenRejected ==
  Called /\ Len(raw) = 10 /\ ~gsResult.ok /\ gsResult.error.kind = "MissingSection"

\* the five rules hold of the batch, and its tags are section tags
WellFormed(lines) ==
  /\ ~TooShort(lines) /\ ~Incomplete(lines) /\ ~ForeignSpeaker(lines)
  /\ ~Disordered(lines) /\ ~LongRun(lines)
  /\ TagsOf(lines) \subseteq SeqRange(sectionOrder)

C19_WitnessLong ==
  gsResult.ok /\ gsResult.warned /\ gsResult.script.estimatedDuration > 180

\* a Script within the range
C19_WitnessInRange ==
  gsResult.ok /\ ~gsResult.warned /\ gsResult.script.estimatedDuration = 180

\* C20: the estimatedDuration of a returned Script is totalWords / 150 * 60
\* rounded to the nearest integer, for every totalWords.
C20_DurationFormula ==
  gsResult.ok =>
    LET tw == gsResult.script.totalWords
        d == gsResult.script.estimatedDuration
    IN /\ tw = SumWords(gsResult.script.lines, 1)
       /\ 2 * (150 * d - 60 * tw) \in (-150 + 1)..150

\* 452 words: 180.8 seconds, rounded up to 181
C20_Witness ==
  gsResult.ok /\ gsResult.script.totalWords = 452 /\ gsResult.script.estimatedDuration = 181

\* 451 words: 180.4 seconds, rounded down to 180
C20_WitnessDown ==
  gsResult.ok /\ gsResult.script.totalWords = 451 /\ gsResult.script.estimatedDuration = 180

(***************************************************************************)
(* Properties of the first and the last step of stitchAudioSegments.       *)
(***************************************************************************)
\* the operations a call awaited
OpsOf(r) == {stitchTrace[r][i][1] : i \in 1..Len(stitchTrace[r])}

\* the call awaited op and it ended as ok says
Awaited(r, op, ok) == \E i \in 1..Len(stitchTrace[r]) : stitchTrace[r][i] = <<op, ok>>

\* the call has written no file
WroteNothing(r) ==
  /\ \A path \in DOMAIN pathWriters : r \notin pathWriters[path]
  /\ listWritten[r] = <<>>
  /\ r \notin audioFiles

\* C21: called with an empty list of segments, stitchAudioSegments throws
\* the no-segments error before it checks for ffmpeg, makes a directory or
\* writes a file.
C21_EmptyListRejectedFirst ==
  \A r \in RunIds :
    (spc[r] # "idle" /\ stitchSegs[r] = <<>>) =>
      /\ spc[r] = "thrown"
      /\ stitchOut[r].error = Msg("NoAudioSegments", "", 0)
      /\ stitchTrace[r] = <<>>
      /\ toolExit[r] = "none"
      /\ WroteNothing(r)

\* a call with no segments, made while the other call had its list written
C21_Witness ==
  /\ spc["s1"] = "thrown" /\ stitchSegs["s1"] = <<>>
  /\ stitchOut["s1"].error.kind = "NoAudioSegments"
  /\ listWritten["s2"] # <<>>

\* C22: when ffmpeg is not available, stitchAudioSegments throws the
\* tool-unavailable error before it makes a directory, writes the list or
\* runs ffmpeg on the segments.
C22_MissingToolRejectedFirst ==
  \A r \in RunIds :
    Awaited(r, "ffmpeg_version", FALSE) =>
      /\ spc[r] = "thrown"
      /\ stitchOut[r].error = Msg("FFmpegNotAvailable", "", 0)
      /\ stitchTrace[r] = << <<"ffmpeg_version", FALSE>> >>
      /\ toolExit[r] = "none" /\ listRead[r] = <<>>
      /\ WroteNothing(r)

\* a call with three segments that found no ffmpeg
C22_Witness ==
  /\ Len(stitchSegs["s1"]) = 3 /\ Awaited("s1", "ffmpeg_version", FALSE)
  /\ stitchOut["s1"].error.kind = "FFmpegNotAvailable"

\* C23: when the list cannot be removed after ffmpeg succeeded, the call does
\* not fail: it returns the path, duration and size it returns when the
\* removal succeeds.
C23_CleanupFailureIgnored ==
  \A r \in RunIds :
    (\E ok \in BOOLEAN : Awaited(r, "unlink", ok)) =>
      /\ spc[r] = "returned"
      /\ stitchOut[r] = [status |-> "ok", filePath |-> r,
                         durationSeconds |-> IF Awaited(r, "ffprobe", TRUE) THEN 149 ELSE 0,
                         fileSizeBytes |-> 2400, error |-> NoError]

\* a call that returned although the removal failed
C23_Witness ==
  /\ Awaited("s1", "unlink", FALSE) /\ spc["s1"] = "returned"
  /\ stitchOut["s1"].durationSeconds = 149

\* a call that returned after the removal succeeded
C23_WitnessRemoved ==
  /\ Awaited("s1", "unlink", TRUE) /\ spc["s1"] = "returned"
  /\ stitchOut["s1"].durationSeconds = 149

(***************************************************************************)
(* C24: input validation in front of both endpoints.                       *)
(***************************************************************************)
\* the validation did not accept the input of the request taken
NotAccepted ==
  /\ endpoint # "none"
  /\ LET validation == validateInput(request.input, request.type)
     IN validation.threw \/ ~validation.valid

\* generatePodcast was not invoked: no stage started, no delegate called, no
\* progress reported
NotGenerated ==
  /\ pc = "idle" /\ stageNo = 0 /\ calls = <<>> /\ notes = <<>>
  /\ \A k \in 1..Len(stages) : stages[k].status = "pending"

\* the response is the one invalid-input error
InvalidInputAnswer ==
  /\ response.error = "INVALID_INPUT"
  /\ endpoint = "plain" => response.status = 400 /\ response.events = <<>>
  /\ endpoint = "stream" => response.events = <<"error">>

\* C24: for input that fails input validation, neither endpoint invokes
\* generate (no stage started, no collaborator called, no progress event) and
\* the response is a single invalid-input error
C24_InvalidInputRejectedUpFront == NotAccepted => NotGenerated /\ InvalidInputAnswer

\* the part that holds: generate is never invoked for such input, and when the
\* validation returns its verdict the answer is the invalid-input error
InvalidInputNeverGenerates == NotAccepted => NotGenerated
InvalidVerdictAnswered ==
  (NotAccepted /\ ~validateInput(request.input, request.type).threw) => InvalidInputAnswer

(***************************************************************************)
(* C25, C26: the line a violation names.                                   *)
(***************************************************************************)
\* position of the first line of the first run longer than MAX_CONSECUTIVE
FirstRunStart(lines) ==
  CHOOSE i \in 1..(Len(lines) - MAX_CONSECUTIVE) :
     /\ \A j \in i..(i + MAX_CONSECUTIVE) : lines[j].speaker = lines[i].speaker
     /\ \A h \in 1..(i - 1) :
          \E j \in h..(h + MAX_CONSECUTIVE) : lines[j].speaker # lines[h].speaker

\* C25: a batch with a run of more than 5 lines by one speaker that breaks no
\* earlier rule is rejected with the too-many-consecutive violation, and the
\* line the violation names is the first line of the run
C25_RunNamedByItsFirstLine ==
  (/\ Called /\ ~TooShort(Checked) /\ ~Incomplete(Checked)
   /\ ~ForeignSpeaker(Checked) /\ ~Disordered(Checked) /\ LongRun(Checked)) =>
     /\ ~gsResult.ok
     /\ gsResult.error.kind = "TooManyConsecutive"
     /\ gsResult.error.num \in {FirstRunStart(Checked),
                                Checked[FirstRunStart(Checked)].index}

\* the part that holds: the violation is raised and names the line that makes
\* the run longer than the limit
RunNamedByItsSixthLine ==
  (/\ Called /\ ~TooShort(Checked) /\ ~Incomplete(Checked)
   /\ ~ForeignSpeaker(Checked) /\ ~Disordered(Checked) /\ LongRun(Checked)) =>
     /\ ~gsResult.ok
     /\ gsResult.error.kind = "TooManyConsecutive"
     /\ gsResult.error.num = FirstRunStart(Checked) + MAX_CONSECUTIVE


\* position of the first line whose tag ranks lower than the tag before it
FirstDrop(lines) ==
  CHOOSE i \in 2..Len(lines) :
     /\ Rank(lines[i]) < Rank(lines[i - 1])
     /\ \A j \in 2..(i - 1) : Rank(lines[j]) >= Rank(lines[j - 1])

\* the order violation naming the first line that steps back
OrderRejected(lines) ==
  /\ ~gsResult.ok
  /\ gsResult.error.kind = "SectionsOutOfOrder"
  /\ gsResult.error.num = lines[FirstDrop(lines)].index

\* C26 as stated: when all five tags are present and all speakers are valid
\* but some line's tag ranks lower than the tag of the line before it, the
\* batch is rejected with the order violation naming the first such line;
\* lines that share a tag or move to a later tag are never rejected by the rule
C26_DisorderAlwaysOrderViolation ==
  Called =>
    /\ (/\ ~Incomplete(Checked) /\ ~ForeignSpeaker(Checked) /\ Disordered(Checked))
          => OrderRejected(Checked)
    /\ gsResult.error.kind = "SectionsOutOfOrder" => Disordered(Checked)

\* C26 amended: the same for batches of at least 10 lines
C26_OrderViolationNamesFirstDrop ==
  Called =>
    /\ (/\ ~TooShort(Checked) /\ ~Incomplete(Checked) /\ ~ForeignSpeaker(Checked)
        /\ Disordered(Checked)) => OrderRejected(Checked)
    /\ gsResult.error.kind = "SectionsOutOfOrder" =>
         Disordered(Checked) /\ OrderRejected(Checked)

\* a batch of 10 lines or more rejected for a step back after its fourth line,
\* the lines before it sharing tags and moving to later ones
C26_Witness ==
  /\ Called /\ gsResult.error.kind = "SectionsOutOfOrder"
  /\ Len(Checked) >= MIN_LINES
  /\ FirstDrop(Checked) > 4
  /\ \E j \in 2..(FirstDrop(Checked) - 1) : Rank(Checked[j]) = Rank(Checked[j - 1])
  /\ \E j \in 2..(FirstDrop(Checked) - 1) : Rank(Checked[j]) > Rank(Checked[j - 1])

\* a rejected batch numbered from 0: the index named is not the position
C26_WitnessIndex ==
  /\ Called /\ gsResult.error.kind = "SectionsOutOfOrder"
  /\ gsResult.error.num # FirstDrop(Checked)


(***************************************************************************)
(* C27: the index fields of a returned Script.                             *)
(***************************************************************************)
\* C27: every returned Script has lines whose index fields are exactly
\* 1, 2, ..., n in list order
C27_IndexesAreOneToN ==
  gsResult.ok =>
    \A i \in 1..Len(gsResult.script.lines) : gsResult.script.lines[i].index = i


(***************************************************************************)
(* C28: the reference list follows the Script.                             *)
(***************************************************************************)
\* the list file of the stitch call of this run is on disk
ListOnDisk == pc \in {"save_meta", "returned", "raised"} /\ concatFile # <<>>

\* C28: for the segments synthesized from an accepted Script, the entries of
\* the stitcher's reference list are in the order of the Script's lines
C28_ListFollowsScriptOrder ==
  ListOnDisk =>
    /\ Len(concatFile[1]) = Len(gsResult.script.lines)
    /\ \A i \in 1..Len(concatFile[1]) :
         concatFile[1][i] = SegmentPath(gsResult.script.id, gsResult.script.lines[i])

\* the part that holds: the segments reach the stitcher in the order of the
\* Script's lines
SegmentsFollowScriptOrder ==
  (pc = "await" /\ stageNo = 4) =>
    /\ Len(ttsResult.segments) = Len(gsResult.script.lines)
    /\ \A i \in 1..Len(ttsResult.segments) :
         /\ ttsResult.segments[i].lineIndex = gsResult.script.lines[i].index
         /\ ttsResult.segments[i].filePath =
              SegmentPath(gsResult.script.id, gsResult.script.lines[i])


(***************************************************************************)
(* C29: totalWords.                                                        *)
(***************************************************************************)
\* the white-space-delimited tokens of a text: its longest runs without
\* white space
Tokens(t) == Cardinality({i \in 1..Len(t) : t[i] # "_" /\ (i = 1 \/ t[i - 1] = "_")})

RECURSIVE SumTokens(_, _)
SumTokens(lines, i) ==
  IF i > Len(lines) THEN 0 ELSE Tokens(lines[i].text) + SumTokens(lines, i + 1)

\* C29: for every accepted script, totalWords is the number of
\* white-space-delimited tokens summed over all line texts, an empty text
\* contributing 0
C29_TotalWordsCountsTokens ==
  gsResult.ok => gsResult.script.totalWords = SumTokens(gsResult.script.lines, 1)

\* the part that holds: totalWords is that sum plus one for every empty text
TotalWordsCountsEmptyTexts ==
  gsResult.ok =>
    gsResult.script.totalWords =
      SumTokens(gsResult.script.lines, 1)
        + Cardinality({i \in 1..Len(gsResult.script.lines) :
                         gsResult.script.lines[i].text = <<>>})


(***************************************************************************)
(* C30: tags outside the five section tags.                                *)
(***************************************************************************)
\* the errors validateScript throws
ValidatorErrors ==
  {"ScriptTooShort", "MissingSection", "InvalidSpeaker", "SectionsOutOfOrder",
   "TooManyConsecutive"}

UnknownTag(lines) == \E i \in 1..Len(lines) : lines[i].section \notin SeqRange(sectionOrder)

\* C30: validateScript rejects every batch that contains a line whose tag is
\* not one of the five section tags, wherever the line is, the very start
\* included
C30_UnknownTagRejectedByValidator ==
  (Called /\ UnknownTag(Checked)) =>
     /\ validateScript(Checked) # NoError
     /\ ~gsResult.ok /\ gsResult.error.kind \in ValidatorErrors

\* the part that holds: the validator rejects an unknown tag that follows a
\* line with one of the five tags, and no Script with an unknown tag is returned
UnknownTagAfterKnownRejected ==
  /\ gsResult.ok => ~UnknownTag(gsResult.script.lines)
  /\ (/\ Called
      /\ \E i \in 2..Len(Checked) :
           /\ Checked[i].section \notin SeqRange(sectionOrder)
           /\ Checked[i - 1].section \in SeqRange(sectionOrder))
       => gsResult.error.kind \in ValidatorErrors


(***************************************************************************)
(* C31, C32: what a finished stitch call leaves and returns.               *)
(***************************************************************************)
\* no other call has started
OnlyCall(r) == \A q \in RunIds \ {r} : spc[q] = "idle"

\* C31: once stitchAudioSegments has returned or thrown, the list it wrote is
\* no longer on disk, unless the removal itself failed
C31_ListCleanedPerStitch ==
  \A r \in RunIds :
    (/\ spc[r] \in {"returned", "thrown"} /\ OnlyCall(r)
     /\ listWritten[r] # <<>> /\ ~Awaited(r, "unlink", FALSE)) => concatFile = <<>>

\* the part that holds: a call that returned and whose removal succeeded has
\* left no list
ListCleanedAfterSuccess ==
  \A r \in RunIds :
    (spc[r] = "returned" /\ OnlyCall(r) /\ Awaited(r, "unlink", TRUE)) => concatFile = <<>>


\* C32: every result stitchAudioSegments returns carries the duration ffprobe
\* printed for the output file, rounded to the nearest second, and the size
\* fs.stat gave; the duration is never a substitute for a failed probe
C32_DurationIsProbed ==
  \A r \in RunIds :
    spc[r] = "returned" =>
      /\ Awaited(r, "ffprobe", TRUE)
      /\ stitchOut[r].durationSeconds = RoundTenths(GoodEnv.probe)
      /\ stitchOut[r].fileSizeBytes = GoodEnv.size

\* the part that holds: after a probe that succeeded the result carries the
\* rounded duration, and every result carries the size
ProbedDurationReturned ==
  \A r \in RunIds :
    spc[r] = "returned" =>
      /\ Awaited(r, "ffprobe", TRUE) =>
           stitchOut[r].durationSeconds = RoundTenths(GoodEnv.probe)
      /\ stitchOut[r].fileSizeBytes = GoodEnv.size


(***************************************************************************)
(* C33: how the endpoints report a rejection by the validator.             *)
(***************************************************************************)
\* the handler has answered a run that the validator stopped
ValidatorRejectionAnswered ==
  /\ endpoint # "none" /\ response # NoResponse
  /\ pc = "raised" /\ thrown.kind \in ValidatorErrors

\* C33: an error raised by the validator is reported by both endpoints as
\* generation failed, never as article too short, article not found or
\* service unavailable
C33_ValidatorErrorIsGenerationFailed ==
  ValidatorRejectionAnswered => response.error = "GENERATION_FAILED"

\* the part that holds: every violation but the too-short one is reported as
\* generation failed
OtherViolationsAreGenerationFailed ==
  (ValidatorRejectionAnswered /\ thrown.kind # "ScriptTooShort")
     => response.error = "GENERATION_FAILED"

\* a run-limit violation was answered
OtherViolationAnswered == ValidatorRejectionAnswered /\ thrown.kind = "TooManyConsecutive"


(***************************************************************************)
(* C34: one synthesis call at a time.                                      *)
(***************************************************************************)
\* the clip of the line at position j was written in the running attempt and
\* its segment is collected
Persisted(j) ==
  /\ SegmentPath(ttsId, ttsLines[j]) \in DOMAIN segFiles
  /\ segFiles[SegmentPath(ttsId, ttsLines[j])] = attemptsStarted
  /\ j <= Len(segments)
  /\ segments[j].filePath = SegmentPath(ttsId, ttsLines[j])
  /\ segments[j].madeIn = attemptsStarted

\* C34: during an attempt at most one synthesis call is outstanding, and the
\* call for a line is outstanding only when the clip of every earlier line of
\* the batch has been received and written
C34_OneCallAtATime ==
  /\ Cardinality(outstanding) <= 1
  /\ \A p \in outstanding :
       /\ rpc = "line" /\ p = linePos
       /\ \A j \in 1..(p - 1) : Persisted(j)
  /\ rpc # "line" => outstanding = {}

\* the call for the third line is outstanding in the second attempt
C34_Witness ==
  /\ outstanding = {3} /\ attemptsStarted = 2
  /\ Persisted(1) /\ Persisted(2)


(***************************************************************************)
(* C35: retries inside the synthesis stage of a pipeline run.              *)
(***************************************************************************)
\* generatePodcast awaits the wrapper, which has not settled
SynthesisPending == pc = "await" /\ stageNo = 3 /\ rpc \notin {"returned", "thrown"}

\* C35: in a pipeline run the batch is attempted at most 3 times, the
\* synthesis stage is marked failed only after the third attempt has failed,
\* and while retries are pending the stage stays in progress with no
\* notification after the one that announced it
C35_ThreeAttemptsThenFailed ==
  /\ attemptsStarted <= 3
  /\ StatusOf(3) = "failed" => attemptsStarted = 3 /\ attemptsFailed = 3
  /\ SynthesisPending =>
       /\ StatusOf(3) = "in_progress"
       /\ \A k \in StageNos \ {3} : StatusOf(k) # "in_progress"
       /\ onProgress =>
            /\ Len(notes) = 5
            /\ notes[5] = [name |-> StageNames[3], status |-> "in_progress"]
       /\ ~onProgress => notes = <<>>

\* the stage failed after three attempts, with a callback
C35_Witness ==
  /\ pc = "raised" /\ StatusOf(3) = "failed" /\ attemptsFailed = 3 /\ onProgress
  /\ Len(notes) = 6

\* the wrapper sleeps before the third attempt
C35_WitnessPending == SynthesisPending /\ rpc = "sleep" /\ attemptsFailed = 2 /\ onProgress


(***************************************************************************)
(* C36, C37: the stages array and the metadata record.                     *)
(***************************************************************************)
\* C36: at every point of a run at most one stage is in progress, and the
\* four statuses in pipeline order are zero or more completed, then at most
\* one in progress or failed, then only pending
C36_StageShape ==
  /\ Cardinality({k \in StageNos : StatusOf(k) = "in_progress"}) <= 1
  /\ \E done \in 0..Len(StageNames) :
       /\ \A k \in 1..done : StatusOf(k) = "completed"
       /\ done < Len(StageNames) =>
            /\ StatusOf(done + 1) \in {"in_progress", "failed", "pending"}
            /\ \A k \in (done + 2)..Len(StageNames) : StatusOf(k) = "pending"

\* the third stage failed after two completed
C36_Witness ==
  /\ StatusOf(1) = "completed" /\ StatusOf(2) = "completed"
  /\ StatusOf(3) = "failed" /\ StatusOf(4) = "pending"

\* the fourth stage is in progress
C36_WitnessLast == StatusOf(4) = "in_progress" /\ pc = "await"


\* C37: a metadata record is written only after all four stages have
\* completed: every record on disk lists the four stages as completed, and a
\* run that fails has written none
C37_MetadataOnlyAfterCompletion ==
  /\ \A rec \in savedMetadata :
       /\ Len(rec.stages) = Len(StageNames)
       /\ \A k \in StageNos :
            rec.stages[k].name = StageNames[k] /\ rec.stages[k].status = "completed"
  /\ savedMetadata # {} => pc = "returned" /\ \A k \in StageNos : StatusOf(k) = "completed"
  /\ pc = "raised" => savedMetadata = {}

\* a run wrote its record and returned
C37_Witness ==
  /\ pc = "returned" /\ savedMetadata # {}
  /\ \E rec \in savedMetadata : rec.id = podcast.id

\* a run whose four stages completed failed in saveMetadata and left no record
C37_WitnessFailed ==
  /\ pc = "raised" /\ savedMetadata = {} /\ \A k \in StageNos : StatusOf(k) = "completed"


(***************************************************************************)
(* C38: the event stream of the streaming endpoint.                        *)
(***************************************************************************)
\* the streaming handler has answered
StreamAnswered == endpoint = "stream" /\ response # NoResponse

\* zero or more progress events, then one terminal event, then nothing
EndsWithOneTerminal(stream) ==
  /\ Len(stream) >= 1
  /\ stream[Len(stream)][1] \in {"complete", "error"}
  /\ \A i \in 1..(Len(stream) - 1) : stream[i][1] = "progress"

\* C38: every response of the streaming endpoint carries zero or more
\* progress events followed by exactly one terminal event, complete or error,
\* after which the stream is ended; the progress events are the orchestrator's
\* notifications in their order and none follows the terminal event
C38_StreamEndsWithOneTerminal ==
  StreamAnswered =>
    /\ EndsWithOneTerminal(SseStream)
    /\ SubSeq(SseStream, 1, Len(SseStream) - 1) = ProgressEvents
    /\ pc \in {"idle", "returned", "raised"}

\* the part that holds: the same for every request whose validation returned
StreamShapeAfterVerdict ==
  (StreamAnswered /\ ~validateInput(request.input, request.type).threw) =>
    /\ EndsWithOneTerminal(SseStream)
    /\ SubSeq(SseStream, 1, Len(SseStream) - 1) = ProgressEvents
    /\ pc \in {"idle", "returned", "raised"}

\* ... and once the handler has answered, no notification is made
NoProgressAfterAnswer == [][response # NoResponse => notes' = notes]_vars


(***************************************************************************)
(* C39: the hook and the end of its stream.                                *)
(***************************************************************************)
\* the stream of the latest generate() has ended: its read loop saw done, or
\* its promise chain ran into the catch
LatestStreamEnded == generated > 0 /\ streamStatus[generated] \in {"closed", "failed"}

\* C39: after generate() the state leaves loading for success or error once
\* the stream has ended, also when it ends without a complete or error event;
\* after reset() or a new generate() no event of the aborted stream changes
\* the state of the hook
C39_LeavesLoadingWhenStreamEnds ==
  /\ LatestStreamEnded => hookState # "loading"
  /\ \A i \in StreamIds : streamStatus[i] = "aborted" => hookResult # i

\* the part that holds: a stream that was aborted reads nothing more and
\* calls nothing
AbortedStreamSilent ==
  [][\A i \in StreamIds :
       streamStatus[i] = "aborted" =>
         /\ streamStatus'[i] = "aborted" /\ streamEvents'[i] = streamEvents[i]
         /\ hookResult' # i]_vars

\* ... and a stream that ended after a terminal event or in the catch has left
\* loading
EndedAfterTerminalLeavesLoading ==
  (LatestStreamEnded /\ hookState = "loading") =>
     /\ streamStatus[generated] = "closed"
     /\ hookResult = 0 /\ hookError = ""

====
